---- MODULE Spec2Model ----
(***************************************************************************)
(* A state-machine model of the smartnode decision engine:                 *)
(*   - CreateNetworkState and NetworkState.getNetworkDetails               *)
(*     (shared/services/state/network-state.go): the pinned snapshot and   *)
(*     its errgroup fan-out;                                               *)
(*   - NetworkState.CalculateEffectiveStakes (same file);                  *)
(*   - the reduceBonds task (rocketpool/node: run, getReduceableMinipools, *)
(*     reduceBond).                                                        *)
(* Spec        builds one snapshot and then computes the effective stakes. *)
(* SpecReduce  runs one pass of the reduceBonds task.                      *)
(***************************************************************************)
EXTENDS Integers, Sequences, FiniteSets, TLC

VARIABLES
    \* ---- CreateNetworkState / CalculateEffectiveStakes ----
    pc,               \* position of the calling goroutine
    slotNumber,       \* argument of CreateNetworkState
    beaconBlock,      \* what bc.GetBeaconBlock answered (outcome, ExecutionBlockNumber)
    elBlockNumber,    \* local elBlockNumber (line 76)
    isAtlasDeployed,  \* local isAtlasDeployed (line 81)
    state,            \* the *NetworkState under construction
    wg,               \* the errgroup.Group of the running fan-out
    ret,              \* what CreateNetworkState returned: state and error
    elReads,          \* every execution-layer read issued so far, with its block
    clReads,          \* every GetValidatorStatuses request issued so far
    failures,         \* the reads that failed so far, in the order they failed
    stakes,           \* CalculateEffectiveStakes: its argument, effectiveStakeSlice, results
    writes,           \* every assignment a worker made: <<location, worker>>
    \* ---- reduceBonds ----
    rb,               \* the reduceBonds task (filled in below)
    \* ---- rocketpool/common/rewards ----
    call              \* the running call of a rewards utility: its arguments,
                      \* its position and its results

snapVars == <<pc, slotNumber, beaconBlock, elBlockNumber, isAtlasDeployed, state,
              wg, ret, elReads, clReads, failures, stakes, writes>>
vars == <<snapVars, rb, call>>

-----------------------------------------------------------------------------
(* Bounds of the model *)

\* Slots that CreateNetworkState is asked for: 1..MaxSlot
MaxSlot == 1
\* How many of the plain unconditional getNetworkDetails workers are modelled:
\* the first NumWorkers of the source, in source order.  The workers that are
\* not a plain read are always modelled: the reward index and the first worker
\* that is passed it, the two raw balance reads and the four Atlas-gated ones
NumWorkers == 1
\* How many reads may fail during one run
MaxFailures == 2
\* Node count of a snapshot: 0..MaxNodes
MaxNodes == 7
\* Minipools of the node that the reduceBonds task looks at: 0..MaxMinipools
MaxMinipools == 2
\* Bond reduction window lengths: 1..MaxWindow seconds
MaxWindow == 3
\* Wei per ETH in the model: deposit balances are multiples of 1/WeiPerEth ETH
WeiPerEth == 4
\* the most chunks a command writes to one of its output pipes before closing it
MaxChunks == 2
\* the highest block number of the auction model: lot end blocks and the head
MaxLotBlock == 2
\* the highest fee and gas limit a client is given, and the most API calls of
\* one client
MaxGas == 1
MaxCalls == 2
\* Wei per Gwei in the model: validator balances are reported in Gwei
WeiPerGwei == 3
\* Merkle roots of rewards events and rewards files: 1..MaxRoot (0 is the zero hash)
MaxRoot == 2
\* the head block of the execution chain searched for a time is at most MaxHead
MaxHead == 4
\* consecutive blocks are at most MaxBlockGap seconds apart
MaxBlockGap == 2
\* the head of the Beacon chain scanned for a start slot is in epoch 0..MaxEpoch
MaxEpoch == 2
\* wall-clock times of the calls of GetCidForRewardsFile: 1..MaxClock
MaxClock == 3
\* the serialized rewards files given to the compressor have at most MaxLen bytes
MaxLen == 4
\* a block of a compressed frame holds at most MaxBlockLen bytes of content
MaxBlockLen == 2
\* GetClaimStatus is asked for current indices in buckets 0..MaxClaimBucket
MaxClaimBucket == 1

(* Program constants *)

\* const threadLimit int = 6
threadLimit == 6
\* const reduceBondTimeoutSafetyFactor int = 2
reduceBondTimeoutSafetyFactor == 2
\* time.Second, the unit of every time.Duration of the task.  Durations are
\* counted in half seconds here: time.Second is an even number of nanoseconds
\* and every duration of the task is a whole number of seconds, so halving a
\* duration is exact in nanoseconds and in half seconds
Second == 2

\* the intervals of one claim bitmap: bucket := currentIndex / 256, j < 256
BucketSize == 256
\* the Prater intervals with a hardcoded event: interval < 6
PrehistoryIntervals == 6

Slots == 1..MaxSlot

NoErr == "nil"

-----------------------------------------------------------------------------
(* errgroup.Group as getNetworkDetails and CalculateEffectiveStakes use it:  *)
(* var wg errgroup.Group; wg.SetLimit(threadLimit); wg.Go(f)...; wg.Wait()   *)

\* A fresh group: nothing spawned, no error retained
NewGroup(n) == [n |-> n, next |-> 1, running |-> {}, done |-> {}, err |-> NoErr]

NoGroup == NewGroup(0)

\* wg.Go blocks while threadLimit goroutines of the group are active
GoEnabledNoLimit(g) == g.next <= g.n
GoEnabled(g) == g.next <= g.n /\ Cardinality(g.running) < threadLimit

\* wg.Go(f): start the next task
GroupGo(g) == [g EXCEPT !.next = g.next + 1, !.running = g.running \cup {g.next}]

\* errOnce.Do: the first non-nil error returned by a task is retained
ErrOnceLast(old, new) == IF new # NoErr THEN new ELSE old
ErrOnce(old, new) == IF old = NoErr /\ new # NoErr THEN new ELSE old

\* a task returns e: the error is offered to errOnce and the slot is released
GroupDone(g, i, e) ==
    [g EXCEPT !.running = g.running \ {i}, !.done = g.done \cup {i},
              !.err = ErrOnce(g.err, e)]

\* wg.Wait returns once every wg.Go call was made and every task has returned
WaitEnabledNoJoin(g) == g.next > g.n
WaitEnabled(g) == g.next > g.n /\ g.running = {}

-----------------------------------------------------------------------------
(* The execution layer as the snapshot reads it *)

\* bind.CallOpts{BlockNumber: n}; a nil BlockNumber (the chain head) is 0
CallOpts(n) == [BlockNumber |-> n]

\* opts (line 77): pinned to the beacon block's execution block
PinnedOpts(elBlock) == CallOpts(elBlock)

\* the CallOpts built for IsAtlasDeployed (line 81)
AtlasOptsLatest(elBlock) == CallOpts(0)
AtlasOpts(elBlock) == CallOpts(elBlock)

\* the block number handed to rp.Client.BalanceAt (lines 296 and 405)
RawBalanceBlockLatest(opts) == 0
RawBalanceBlock(opts) == opts.BlockNumber

\* rewards.GetRewardIndex at a block: the chain's reward index there (never 0
\* in the model, so that it differs from the zero value of the field)
RewardIndexAt(block) == block

\* one entry of the read log
Read(name, block) == [read |-> name, block |-> block]

\* a value of a NetworkDetails field: the block it was read at and, for the
\* values computed from a reward index, the index that was passed
Value(block, idx) == <<block, idx>>
Zero == Value(0, 0)

-----------------------------------------------------------------------------
(* The workers of getNetworkDetails, in source order.  A worker is the       *)
(* sequence of its reads; each read names the field assigned from it.        *)
(*   onErr : the field is assigned even when the read fails                  *)
(*           (state.NetworkDetails.X, err = f(...)); FALSE when the result   *)
(*           goes through a local and is assigned after the error check      *)
(*   idx   : state.NetworkDetails.RewardIndex is passed as an argument       *)
(*   raw   : the read is rp.Client.BalanceAt(ctx, addr, opts.BlockNumber)    *)

Rd(read, fld, onErr, idx, raw) ==
    [read |-> read, field |-> fld, onErr |-> onErr, idx |-> idx, raw |-> raw]

\* state.NetworkDetails.X, err = f(rp, opts)
Direct(read, fld) == <<Rd(read, fld, TRUE, FALSE, FALSE)>>
\* x, err := f(rp, opts); if err != nil { return }; state.NetworkDetails.X = conv(x)
ViaLocal(read, fld) == <<Rd(read, fld, FALSE, FALSE, FALSE)>>
\* state.NetworkDetails.X, err = f(cfg, state.NetworkDetails.RewardIndex, rp, opts)
ByIndex(read, fld) == <<Rd(read, fld, TRUE, TRUE, FALSE)>>

SmoothingPoolWorker ==
    << Rd("GetContract(rocketSmoothingPool)", "SmoothingPoolAddress", FALSE, FALSE, FALSE),
       Rd("BalanceAt(smoothingPool)", "SmoothingPoolBalance", TRUE, FALSE, TRUE) >>

RETHBalanceWorker == <<Rd("BalanceAt(rETH)", "RETHBalance", TRUE, FALSE, TRUE)>>

AllWorkers ==
    << Direct("GetRPLPrice", "RplPrice"),
       Direct("GetMinimumPerMinipoolStakeRaw", "MinCollateralFraction"),
       Direct("GetMaximumPerMinipoolStakeRaw", "MaxCollateralFraction"),
       ViaLocal("GetRewardIndex", "RewardIndex"),
       ByIndex("GetClaimIntervalTime", "IntervalDuration"),
       Direct("GetClaimIntervalTimeStart", "IntervalStart"),
       ByIndex("GetNodeOperatorRewardsPercent", "NodeOperatorRewardsPercent"),
       ByIndex("GetTrustedNodeOperatorRewardsPercent", "TrustedNodeOperatorRewardsPercent"),
       ByIndex("GetProtocolDaoRewardsPercent", "ProtocolDaoRewardsPercent"),
       ByIndex("GetPendingRPLRewards", "PendingRPLRewards"),
       ViaLocal("GetScrubPeriod", "ScrubPeriod"),
       SmoothingPoolWorker,
       Direct("deposit.GetBalance", "DepositPoolBalance"),
       Direct("deposit.GetExcessBalance", "DepositPoolExcess"),
       Direct("GetQueueCapacity", "QueueCapacity"),
       Direct("GetRPLInflationIntervalRate", "RPLInflationIntervalRate"),
       Direct("GetRPLTotalSupply", "RPLTotalSupply"),
       Direct("GetPricesBlock", "PricesBlock"),
       ViaLocal("GetLatestReportablePricesBlock", "LatestReportablePricesBlock"),
       Direct("GetETHUtilizationRate", "ETHUtilizationRate"),
       Direct("GetStakingETHBalance", "StakingETHBalance"),
       Direct("GetRETHExchangeRate", "RETHExchangeRate"),
       Direct("GetTotalETHBalance", "TotalETHBalance"),
       RETHBalanceWorker,
       Direct("GetRETHTotalSupply", "TotalRETHSupply"),
       Direct("GetTotalRPLStake", "TotalRPLStake"),
       Direct("GetNodeFee", "NodeFee"),
       Direct("GetBalancesBlockRaw", "BalancesBlock"),
       Direct("GetLatestReportableBalancesBlock", "LatestReportableBalancesBlock"),
       Direct("GetSubmitBalancesEnabled", "SubmitBalancesEnabled"),
       Direct("GetSubmitPricesEnabled", "SubmitPricesEnabled"),
       Direct("GetMinipoolLaunchTimeoutRaw", "MinipoolLaunchTimeout") >>

\* the workers spawned only if isAtlasDeployed (lines 484-520)
AtlasWorkers ==
    << ViaLocal("GetPromotionScrubPeriod", "PromotionScrubPeriod"),
       ViaLocal("GetBondReductionWindowStart", "BondReductionWindowStart"),
       ViaLocal("GetBondReductionWindowLength", "BondReductionWindowLength"),
       Direct("deposit.GetUserBalance", "DepositPoolUserBalance") >>

\* the unconditional workers the model runs, in source order: the first
\* NumWorkers of the source and, of the rest, the ones that are not a plain read
IsSpecialWorker(w) ==
    \/ \E j \in DOMAIN w : w[j].raw
    \/ w = ViaLocal("GetRewardIndex", "RewardIndex")
    \/ w = ByIndex("GetClaimIntervalTime", "IntervalDuration")
ModelledWorkers ==
    LET k == IF NumWorkers < Len(AllWorkers) THEN NumWorkers ELSE Len(AllWorkers)
    IN  SubSeq(AllWorkers, 1, k)
            \o SelectSeq(SubSeq(AllWorkers, k + 1, Len(AllWorkers)), IsSpecialWorker)

\* the wg.Go calls of getNetworkDetails, in order (lines 189-520)
SpawnedAlways(base, atlas) == base \o AtlasWorkers
SpawnedWorkers(base, atlas) == base \o (IF atlas THEN AtlasWorkers ELSE <<>>)

\* the tasks of the running getNetworkDetails
NetTasks == SpawnedWorkers(ModelledWorkers, isAtlasDeployed)

\* the fields of NetworkDetails that the workers of a list assign
FieldsOf(workers) ==
    UNION {{workers[i][j].field : j \in DOMAIN workers[i]} : i \in DOMAIN workers}

Fields == FieldsOf(AllWorkers \o AtlasWorkers)

\* &rpstate.NetworkDetails{} (line 184): every field at its zero value
EmptyNetworkDetails == [f \in Fields |-> Zero]

-----------------------------------------------------------------------------
(* The chain content a snapshot reads: node i of n has address i *)

\* beaconBlock.ExecutionBlockNumber of the block at a slot
ChainExecutionBlock(slot) == 2 * slot + 1

\* rpstate.GetAllNativeNodeDetails: the registered nodes
ChainNodes(n) ==
    [i \in 1..n |-> [NodeAddress |-> i, RplStake |-> 10 * i, RegistrationTime |-> i]]

\* rpstate.GetAllNativeMinipoolDetails: node i owns (i % 3) minipools; the
\* k-th minipool has address k, every third one has no public key yet
ChainMinipoolOwners(n) ==
    LET Own[i \in 0..n] ==
            IF i = 0 THEN <<>>
            ELSE Own[i - 1] \o [j \in 1..(i % 3) |-> i]
    IN  Own[n]

ChainMinipools(n) ==
    LET owners == ChainMinipoolOwners(n)
    IN  [k \in DOMAIN owners |->
            [MinipoolAddress |-> k, NodeAddress |-> owners[k],
             Pubkey |-> IF k % 3 = 0 THEN 0 ELSE k,
             Exists |-> TRUE,
             Status |-> IF k % 4 = 0 THEN "Prelaunch" ELSE "Staking",
             NodeDepositBalance |-> IF k % 2 = 0 THEN 8 ELSE 16,
             UserDepositBalance |-> IF k % 2 = 0 THEN 24 ELSE 16,
             NodeShareOfBalance |-> 0]]

\* bc.GetValidatorStatuses: the Beacon chain knows every requested key but the
\* ones divisible by 5
ChainValidators(pubkeys, slot) ==
    [p \in {q \in pubkeys : q % 5 # 0} |->
        [Pubkey |-> p, Balance |-> 32, ActivationEpoch |-> p % 2,
         ExitEpoch |-> IF p % 7 = 0 THEN 0 ELSE 100]]

-----------------------------------------------------------------------------
(* CreateNetworkState (lines 61-179) *)

NilState == [nil |-> TRUE]

\* the state wrapper of lines 87-96
NewNetworkState(slot, elBlock, atlas) ==
    [nil |-> FALSE,
     IsAtlasDeployed |-> atlas,
     ElBlockNumber |-> elBlock,
     BeaconSlotNumber |-> slot,
     NetworkDetails |-> <<>>,
     NodeDetails |-> <<>>,
     NodeDetailsByAddress |-> <<>>,
     MinipoolDetails |-> <<>>,
     MinipoolDetailsByAddress |-> <<>>,
     MinipoolDetailsByNode |-> <<>>,
     ValidatorDetails |-> <<>>]

NoReturn == [returned |-> FALSE, state |-> NilState, err |-> NoErr]
Returned(st, e) == [returned |-> TRUE, state |-> st, err |-> e]

\* return nil, fmt.Errorf(...)
ReturnError(e) ==
    /\ ret' = Returned(NilState, e)
    /\ pc' = "done"

\* a read of the chain facade fails: at most MaxFailures do in one run
MayFail == Len(failures) < MaxFailures

\* if !exists { return nil, ... } (line 71)
SlotMissingIgnored(exists) == FALSE
SlotMissing(exists) == ~exists

\* bc.GetBeaconBlock(slotNumber) and the two checks after it (lines 67-79)
GetBeaconBlock ==
    /\ pc = "GetBeaconBlock"
    /\ \/ /\ MayFail
          /\ beaconBlock' = [outcome |-> "error", exists |-> FALSE, ExecutionBlockNumber |-> 0]
          /\ failures' = Append(failures, "error getting Beacon block")
          /\ ReturnError("error getting Beacon block")
          /\ UNCHANGED elBlockNumber
       \/ \E blk \in {[outcome |-> "ok", exists |-> FALSE, ExecutionBlockNumber |-> 0],
                     [outcome |-> "ok", exists |-> TRUE,
                      ExecutionBlockNumber |-> ChainExecutionBlock(slotNumber)]} :
             /\ beaconBlock' = blk
             /\ UNCHANGED failures
             /\ IF SlotMissing(blk.exists)
                THEN /\ ReturnError("slot did not have a Beacon block")
                     /\ UNCHANGED elBlockNumber
                ELSE /\ elBlockNumber' = blk.ExecutionBlockNumber
                     /\ pc' = "IsAtlasDeployed"
                     /\ UNCHANGED ret
    /\ UNCHANGED <<slotNumber, isAtlasDeployed, state, wg, elReads, clReads, stakes, writes, rb, call>>

\* IsAtlasDeployed(rp, &bind.CallOpts{...}) and the state wrapper (lines 81-96)
CheckAtlas ==
    /\ pc = "IsAtlasDeployed"
    /\ elReads' = elReads \cup {Read("IsAtlasDeployed", AtlasOpts(elBlockNumber).BlockNumber)}
    /\ \/ /\ MayFail
          /\ failures' = Append(failures, "error checking if Atlas is deployed")
          /\ ReturnError("error checking if Atlas is deployed")
          /\ UNCHANGED <<isAtlasDeployed, state>>
       \/ \E deployed \in BOOLEAN :
             /\ isAtlasDeployed' = deployed
             /\ state' = NewNetworkState(slotNumber, elBlockNumber, deployed)
             /\ pc' = "NewNetworkContracts"
             /\ UNCHANGED <<failures, ret>>
    /\ UNCHANGED <<slotNumber, beaconBlock, elBlockNumber, wg, clReads, stakes, writes, rb, call>>

\* rpstate.NewNetworkContracts(rp, isAtlasDeployed, opts) (lines 102-105); on
\* success getNetworkDetails is entered: state.NetworkDetails = &NetworkDetails{}
\* and a fresh errgroup with the limit set (lines 184-187)
NewNetworkContracts ==
    /\ pc = "NewNetworkContracts"
    /\ elReads' = elReads \cup {Read("NewNetworkContracts", PinnedOpts(elBlockNumber).BlockNumber)}
    /\ \/ /\ MayFail
          /\ failures' = Append(failures, "error getting network contracts")
          /\ ReturnError("error getting network contracts")
          /\ UNCHANGED <<state, wg>>
       \/ /\ state' = [state EXCEPT !.NetworkDetails = EmptyNetworkDetails]
          /\ wg' = NewGroup(Len(NetTasks))
          /\ pc' = "getNetworkDetails"
          /\ UNCHANGED <<failures, ret>>
    /\ UNCHANGED <<slotNumber, beaconBlock, elBlockNumber, isAtlasDeployed, clReads, stakes, writes, rb, call>>

-----------------------------------------------------------------------------
(* getNetworkDetails (lines 182-528) *)

\* wg.Go(func() error {...}): the next worker is started
NetGo ==
    /\ pc = "getNetworkDetails"
    /\ GoEnabled(wg)
    /\ wg' = GroupGo(wg)
    /\ UNCHANGED <<pc, slotNumber, beaconBlock, elBlockNumber, isAtlasDeployed, state,
                   ret, elReads, clReads, failures, stakes, writes, rb, call>>

\* the block a read of a worker is made at
ReadBlock(rd, opts) == IF rd.raw THEN RawBalanceBlock(opts) ELSE opts.BlockNumber

\* the value a successful read assigns to its field
ReadValue(rd, opts, details) ==
    IF rd.field = "RewardIndex"
    THEN Value(ReadBlock(rd, opts), RewardIndexAt(ReadBlock(rd, opts)))
    ELSE Value(ReadBlock(rd, opts), IF rd.idx THEN details["RewardIndex"][2] ELSE 0)

\* NetworkDetails after worker w ran with its failAt-th read failing (0: none)
RECURSIVE WorkerWrites(_, _, _, _, _)
WorkerWrites(w, j, failAt, opts, details) ==
    IF j > Len(w) \/ (failAt # 0 /\ j > failAt) THEN details
    ELSE LET rd == w[j]
             after == IF j = failAt
                      THEN IF rd.onErr THEN [details EXCEPT ![rd.field] = Zero] ELSE details
                      ELSE [details EXCEPT ![rd.field] = ReadValue(rd, opts, details)]
         IN  WorkerWrites(w, j + 1, failAt, opts, after)

\* the reads worker w issued
WorkerReads(w, failAt, opts) ==
    {Read(w[j].read, ReadBlock(w[j], opts)) : j \in {k \in DOMAIN w : failAt = 0 \/ k <= failAt}}

\* the fields worker w assigned
WorkerAssigns(w, failAt) ==
    {w[j].field : j \in {k \in DOMAIN w : failAt = 0 \/ k < failAt \/ (k = failAt /\ w[k].onErr)}}

\* what worker w returns
WorkerError(w, failAt) == IF failAt = 0 THEN NoErr ELSE w[failAt].read

\* the body of worker i, from its first read to its return
NetWorker(i) ==
    /\ pc = "getNetworkDetails"
    /\ i \in wg.running
    /\ \E failAt \in 0..Len(NetTasks[i]) :
          LET w == NetTasks[i]
              opts == PinnedOpts(elBlockNumber)
          IN  /\ failAt # 0 => MayFail
              /\ failures' = IF failAt # 0 THEN Append(failures, w[failAt].read) ELSE failures
              /\ elReads' = elReads \cup WorkerReads(w, failAt, opts)
              /\ state' = [state EXCEPT !.NetworkDetails =
                              WorkerWrites(w, 1, failAt, opts, state.NetworkDetails)]
              /\ writes' = writes \cup {<<f, i>> : f \in WorkerAssigns(w, failAt)}
              /\ wg' = GroupDone(wg, i, WorkerError(w, failAt))
    /\ UNCHANGED <<pc, slotNumber, beaconBlock, elBlockNumber, isAtlasDeployed,
                   ret, clReads, stakes, rb, call>>

\* what wg.Wait() returns: the retained error
WaitErrorDropped(g) == NoErr
WaitError(g) == g.err

\* if err := wg.Wait(); err != nil { return err } (lines 523-527) and the
\* caller's check (lines 106-109)
NetWait ==
    /\ pc = "getNetworkDetails"
    /\ WaitEnabled(wg)
    /\ IF WaitError(wg) # NoErr
       THEN ReturnError(WaitError(wg))
       ELSE /\ pc' = "GetAllNativeNodeDetails"
            /\ UNCHANGED ret
    /\ UNCHANGED <<slotNumber, beaconBlock, elBlockNumber, isAtlasDeployed, state, wg,
                   elReads, clReads, failures, stakes, writes, rb, call>>

-----------------------------------------------------------------------------
(* CreateNetworkState, after the network details (lines 112-179) *)

\* rpstate.GetAllNativeNodeDetails(..., opts) (lines 113-117)
GetAllNativeNodeDetails ==
    /\ pc = "GetAllNativeNodeDetails"
    /\ elReads' = elReads \cup {Read("GetAllNativeNodeDetails", PinnedOpts(elBlockNumber).BlockNumber)}
    /\ \/ /\ MayFail
          /\ failures' = Append(failures, "error getting all node details")
          /\ ReturnError("error getting all node details")
          /\ UNCHANGED state
       \/ \E n \in 0..MaxNodes :
             /\ state' = [state EXCEPT !.NodeDetails = ChainNodes(n)]
             /\ pc' = "GetAllNativeMinipoolDetails"
             /\ UNCHANGED <<failures, ret>>
    /\ UNCHANGED <<slotNumber, beaconBlock, elBlockNumber, isAtlasDeployed, wg, clReads, stakes, writes, rb, call>>

\* for _, details := range state.NodeDetails {
\*     state.NodeDetailsByAddress[details.NodeAddress] = &details }  (lines 127-129)
\* Every entry is the address of the loop variable: one variable for the whole
\* loop (shared: every entry then shows the last node) or one per iteration,
\* as the language version of the build has it.
NodeLookup(nodes, shared) ==
    [a \in {nodes[i].NodeAddress : i \in DOMAIN nodes} |->
        IF shared THEN nodes[Len(nodes)]
        ELSE nodes[CHOOSE i \in DOMAIN nodes :
                      /\ nodes[i].NodeAddress = a
                      /\ \A j \in DOMAIN nodes : nodes[j].NodeAddress = a => j <= i]]

\* state.MinipoolDetailsByAddress[details.MinipoolAddress] = &state.MinipoolDetails[i]
\* (line 135): a pointer into the slice is the index
MinipoolLookup(mps) ==
    [a \in {mps[i].MinipoolAddress : i \in DOMAIN mps} |->
        CHOOSE i \in DOMAIN mps :
            /\ mps[i].MinipoolAddress = a
            /\ \A j \in DOMAIN mps : mps[j].MinipoolAddress = a => j <= i]

\* the map of nodes to minipools (lines 141-146): pointers in slice order
MinipoolsByNode(mps) ==
    [a \in {mps[i].NodeAddress : i \in DOMAIN mps} |->
        SelectSeq([i \in DOMAIN mps |-> i], LAMBDA i : mps[i].NodeAddress = a)]

\* pubkeys (lines 132-138): the non-empty public keys in slice order; the empty
\* key is 0
Pubkeys(mps) ==
    LET keyed == SelectSeq([i \in DOMAIN mps |-> i], LAMBDA i : mps[i].Pubkey # 0)
    IN  [k \in DOMAIN keyed |-> mps[keyed[k]].Pubkey]

\* rpstate.GetAllNativeMinipoolDetails(..., opts) and the lookups (lines 120-147)
GetAllNativeMinipoolDetails ==
    /\ pc = "GetAllNativeMinipoolDetails"
    /\ elReads' = elReads \cup {Read("GetAllNativeMinipoolDetails", PinnedOpts(elBlockNumber).BlockNumber)}
    /\ \/ /\ MayFail
          /\ failures' = Append(failures, "error getting all minipool details")
          /\ ReturnError("error getting all minipool details")
          /\ UNCHANGED state
       \/ \E shared \in BOOLEAN :
             LET mps == ChainMinipools(Len(state.NodeDetails))
             IN  /\ state' = [state EXCEPT
                        !.MinipoolDetails = mps,
                        !.NodeDetailsByAddress = NodeLookup(state.NodeDetails, shared),
                        !.MinipoolDetailsByAddress = MinipoolLookup(mps),
                        !.MinipoolDetailsByNode = MinipoolsByNode(mps)]
                 /\ pc' = "GetValidatorStatuses"
                 /\ UNCHANGED <<failures, ret>>
    /\ UNCHANGED <<slotNumber, beaconBlock, elBlockNumber, isAtlasDeployed, wg, clReads, stakes, writes, rb, call>>

\* the slot of the ValidatorStatusOptions (line 151)
StatusSlotHead(slot) == 0
StatusSlot(slot) == slot

\* bc.GetValidatorStatuses(pubkeys, {Slot: &slotNumber}) (lines 150-157)
GetValidatorStatuses ==
    /\ pc = "GetValidatorStatuses"
    /\ LET pubkeys == Pubkeys(state.MinipoolDetails)
           keys == {pubkeys[k] : k \in DOMAIN pubkeys}
       IN  /\ clReads' = clReads \cup {[pubkeys |-> pubkeys, slot |-> StatusSlot(slotNumber)]}
           /\ \/ /\ MayFail
                 /\ failures' = Append(failures, "error getting validator statuses")
                 /\ ReturnError("error getting validator statuses")
                 /\ UNCHANGED state
              \/ /\ state' = [state EXCEPT !.ValidatorDetails =
                                  ChainValidators(keys, StatusSlot(slotNumber))]
                 /\ pc' = "CalculateCompleteMinipoolShares"
                 /\ UNCHANGED <<failures, ret>>
    /\ UNCHANGED <<slotNumber, beaconBlock, elBlockNumber, isAtlasDeployed, wg, elReads, stakes, writes, rb, call>>

\* eth.GweiToWei(float64(gwei)) (line 168): the amount in the model's wei
GweiToWei(gwei) == gwei * WeiPerGwei

\* beaconBalances[i] (lines 162-170): the validator's balance in wei, 0 without
\* a status
BeaconBalanceUnchecked(st, i) == GweiToWei(32)
BeaconBalance(st, i) ==
    LET key == st.MinipoolDetails[i].Pubkey
    IN  IF key \in DOMAIN st.ValidatorDetails
        THEN GweiToWei(st.ValidatorDetails[key].Balance)
        ELSE 0

\* beaconBalances (lines 160-170): one entry per minipool, in slice order
BeaconBalances(st) == [i \in DOMAIN st.MinipoolDetails |-> BeaconBalance(st, i)]

\* the read-log entry of the share calculation: the balances it was handed
ShareRead(block, beaconBalances) ==
    [read |-> "CalculateCompleteMinipoolShares", block |-> block,
     beaconBalances |-> beaconBalances]

\* rpstate.CalculateCompleteMinipoolShares(..., mpds, beaconBalances, opts) and
\* the return of the state (lines 160-178): the call fills each minipool's
\* share of its beacon balance through the pointers of mpds
CalculateCompleteMinipoolShares ==
    /\ pc = "CalculateCompleteMinipoolShares"
    /\ elReads' = elReads \cup {ShareRead(PinnedOpts(elBlockNumber).BlockNumber, BeaconBalances(state))}
    /\ \/ /\ MayFail
          /\ failures' = Append(failures, "error calculating minipool shares")
          /\ ReturnError("error calculating minipool shares")
          /\ UNCHANGED state
       \/ LET done == [state EXCEPT !.MinipoolDetails =
                          [i \in DOMAIN state.MinipoolDetails |->
                              [state.MinipoolDetails[i] EXCEPT
                                  !.NodeShareOfBalance = BeaconBalances(state)[i] \div 2]]]
          IN  /\ state' = done
              /\ ret' = Returned(done, NoErr)
              /\ pc' = "done"
              /\ UNCHANGED failures
    /\ UNCHANGED <<slotNumber, beaconBlock, elBlockNumber, isAtlasDeployed, wg, clReads, stakes, writes, rb, call>>

-----------------------------------------------------------------------------
(* NetworkState.CalculateEffectiveStakes (lines 531-632) *)

\* intervalEndEpoch (line 562)
IntervalEndEpoch(s) == s.BeaconSlotNumber \div s.BeaconConfig.SlotsPerEpoch

\* the conditions of lines 553-572 under which a minipool is counted
IsEligibleAnyStatus(s, mpd) ==
    /\ mpd.Exists
    /\ mpd.Pubkey \in DOMAIN s.ValidatorDetails
    /\ ~(s.ValidatorDetails[mpd.Pubkey].ActivationEpoch > IntervalEndEpoch(s))
    /\ ~(s.ValidatorDetails[mpd.Pubkey].ExitEpoch <= IntervalEndEpoch(s))
IsEligible(s, mpd) ==
    /\ mpd.Exists
    /\ mpd.Status = "Staking"
    /\ mpd.Pubkey \in DOMAIN s.ValidatorDetails
    /\ ~(s.ValidatorDetails[mpd.Pubkey].ActivationEpoch > IntervalEndEpoch(s))
    /\ ~(s.ValidatorDetails[mpd.Pubkey].ExitEpoch <= IntervalEndEpoch(s))

\* the minipools of s.MinipoolDetailsByNode[address] (a missing key gives none)
NodeMinipools(s, address) ==
    IF address \in DOMAIN s.MinipoolDetailsByNode
    THEN [k \in DOMAIN s.MinipoolDetailsByNode[address] |->
             s.MinipoolDetails[s.MinipoolDetailsByNode[address][k]]]
    ELSE <<>>

\* eligibleBorrowedEth and eligibleBondedEth after the loop of lines 551-577
RECURSIVE EligibleSum(_, _, _, _)
EligibleSum(s, mpds, k, fld) ==
    IF k > Len(mpds) THEN 0
    ELSE (IF IsEligible(s, mpds[k]) THEN mpds[k][fld] ELSE 0) + EligibleSum(s, mpds, k + 1, fld)

EligibleBorrowedEth(s, node) ==
    EligibleSum(s, NodeMinipools(s, node.NodeAddress), 1, "UserDepositBalance")
EligibleBondedEth(s, node) ==
    EligibleSum(s, NodeMinipools(s, node.NodeAddress), 1, "NodeDepositBalance")

\* lines 581-582 and 586-587
MinCollateral(s, node) ==
    (EligibleBorrowedEth(s, node) * s.NetworkDetails.MinCollateralFraction)
        \div s.NetworkDetails.RplPrice
MaxCollateral(s, node) ==
    (EligibleBondedEth(s, node) * s.NetworkDetails.MaxCollateralFraction)
        \div s.NetworkDetails.RplPrice

\* nodeStake after lines 590-597
ClampedStakeNoCeiling(s, node) ==
    IF node.RplStake < MinCollateral(s, node) THEN 0 ELSE node.RplStake
ClampedStakeFloorInclusive(s, node) ==
    IF node.RplStake <= MinCollateral(s, node) THEN 0
    ELSE IF node.RplStake > MaxCollateral(s, node) THEN MaxCollateral(s, node)
    ELSE node.RplStake
ClampedStake(s, node) ==
    IF node.RplStake < MinCollateral(s, node) THEN 0
    ELSE IF node.RplStake > MaxCollateral(s, node) THEN MaxCollateral(s, node)
    ELSE node.RplStake

\* slotTime (lines 535-537), in seconds
SlotTime(s) == s.BeaconConfig.GenesisTime + s.BeaconSlotNumber * s.BeaconConfig.SecondsPerSlot

\* eligibleDuration (line 606), in seconds
EligibleDuration(s, node) == SlotTime(s) - node.RegistrationTime

\* nodeStake after lines 600-612
ScaledStakeAlways(s, node, stake) ==
    (stake * EligibleDuration(s, node)) \div s.NetworkDetails.IntervalDuration
ScaledStake(s, node, stake) ==
    IF EligibleDuration(s, node) < s.NetworkDetails.IntervalDuration
    THEN (stake * EligibleDuration(s, node)) \div s.NetworkDetails.IntervalDuration
    ELSE stake

\* the value worker i stores (line 614)
NodeEffectiveStake(s, node, scaleByParticipation) ==
    IF scaleByParticipation
    THEN ScaledStake(s, node, ClampedStake(s, node))
    ELSE ClampedStake(s, node)

\* the slot of effectiveStakeSlice worker i writes: i := i (line 546) gives
\* every closure its own copy of the loop index
SliceIndexShared(i) == Len(state.NodeDetails)
SliceIndex(i) == i

\* the big.Int that nodeStake points to in the worker of node i:
\* big.NewInt(0).Set(node.RplStake) (line 590) is a new value, not the
\* snapshot's node.RplStake
NodeStakeCellAliased(i) == <<"RplStake", i>>
NodeStakeCell(i) == <<"new", i>>

\* what a worker returns (line 615): nil, whatever its node looks like
StakeWorkerErrorOnUnknown(s, node) ==
    IF \E k \in DOMAIN NodeMinipools(s, node.NodeAddress) :
           NodeMinipools(s, node.NodeAddress)[k].Pubkey \notin DOMAIN s.ValidatorDetails
    THEN "validator status missing" ELSE NoErr
StakeWorkerError(s, node) == NoErr

\* stakes: the flag, effectiveStakeSlice, the two results and the error, and
\* locals: for each worker that ran, its local values at its return
NoStakes ==
    [scaleByParticipation |-> FALSE, slice |-> <<>>, locals |-> <<>>,
     effectiveStakes |-> <<>>, total |-> 0, err |-> NoErr, returned |-> FALSE]

\* the call and lines 532-544: the empty results, one nil slot per node
EnteredStakes(s, scale) ==
    [NoStakes EXCEPT !.scaleByParticipation = scale,
                     !.slice = [i \in DOMAIN s.NodeDetails |-> <<>>],
                     !.locals = [i \in DOMAIN s.NodeDetails |-> <<>>]]

\* wg.Go(func() error {...}) of the loop over s.NodeDetails (lines 545-548)
StakesGo ==
    /\ pc = "CalculateEffectiveStakes"
    /\ GoEnabled(wg)
    /\ wg' = GroupGo(wg)
    /\ UNCHANGED <<pc, slotNumber, beaconBlock, elBlockNumber, isAtlasDeployed, state,
                   ret, elReads, clReads, failures, stakes, writes, rb, call>>

\* the body of worker i (lines 549-615): it stores its node's stake and returns nil
StakesWorker(i) ==
    /\ pc = "CalculateEffectiveStakes"
    /\ i \in wg.running
    /\ LET node == state.NodeDetails[i]
           nodeStake == NodeEffectiveStake(state, node, stakes.scaleByParticipation)
           e == StakeWorkerError(state, node)
       IN  /\ stakes' = [stakes EXCEPT
                  !.slice[SliceIndex(i)] = IF e = NoErr THEN <<nodeStake>> ELSE @,
                  !.locals[i] = <<[eligibleBorrowedEth |-> EligibleBorrowedEth(state, node),
                                   eligibleBondedEth |-> EligibleBondedEth(state, node),
                                   minCollateral |-> MinCollateral(state, node),
                                   maxCollateral |-> MaxCollateral(state, node),
                                   clamped |-> ClampedStake(state, node),
                                   nodeStake |-> NodeStakeCell(i)]>>]
           \* the arithmetic of lines 591-611 is done in place on nodeStake
           /\ state' = IF NodeStakeCell(i)[1] = "RplStake"
                       THEN [state EXCEPT !.NodeDetails[i].RplStake = nodeStake]
                       ELSE state
           /\ writes' = IF e = NoErr THEN writes \cup {<<SliceIndex(i), i>>} ELSE writes
           /\ wg' = GroupDone(wg, i, e)
    /\ UNCHANGED <<pc, slotNumber, beaconBlock, elBlockNumber, isAtlasDeployed,
                   ret, elReads, clReads, failures, rb, call>>

\* the sum of the tally loop (line 627) over the first k slots
TallyTotalLast(slice, k) == IF k = 0 THEN 0 ELSE slice[k][1]
RECURSIVE TallyTotal(_, _)
TallyTotal(slice, k) == IF k = 0 THEN 0 ELSE TallyTotal(slice, k - 1) + slice[k][1]

\* the map of the tally loop (line 626): a later slot of the same address wins
TallyMap(s, slice) ==
    [a \in {s.NodeDetails[i].NodeAddress : i \in DOMAIN slice} |->
        slice[CHOOSE i \in DOMAIN slice :
                  /\ s.NodeDetails[i].NodeAddress = a
                  /\ \A j \in DOMAIN slice : s.NodeDetails[j].NodeAddress = a => j <= i][1]]

\* wg.Wait and the tally (lines 619-630).  A slot no worker stored into is a
\* nil *big.Int: the tally dereferences it and the call panics
StakesWait ==
    /\ pc = "CalculateEffectiveStakes"
    /\ WaitEnabled(wg)
    /\ IF WaitError(wg) # NoErr
       THEN stakes' = [stakes EXCEPT !.err = WaitError(wg), !.returned = TRUE]
       ELSE IF \E i \in DOMAIN stakes.slice : stakes.slice[i] = <<>>
       THEN stakes' = [stakes EXCEPT !.err = "panic: nil pointer dereference", !.returned = TRUE]
       ELSE stakes' = [stakes EXCEPT
                          !.effectiveStakes = TallyMap(state, stakes.slice),
                          !.total = TallyTotal(stakes.slice, Len(stakes.slice)),
                          !.returned = TRUE]
    /\ pc' = "stakesDone"
    /\ UNCHANGED <<slotNumber, beaconBlock, elBlockNumber, isAtlasDeployed, state, wg,
                   ret, elReads, clReads, failures, writes, rb, call>>

-----------------------------------------------------------------------------
(* The reduceBonds task (rocketpool/node): run, getReduceableMinipools,      *)
(* reduceBond.  rb is the task and the locals of the running pass:           *)
(*   pc            position in run                                           *)
(*   windowStart, windowLength, latestBlockTime   the locals of run          *)
(*   count, next   the node's minipools in the snapshot, and the next one    *)
(*                 getReduceableMinipools looks at                           *)
(*   minipools     reduceableMinipools, then run's minipools                 *)
(*   cur           the index of run's loop over minipools                    *)
(*   successCount, err, returned   the tally and what run returned           *)
(*   looked, logged, called, failed, decision, submitted, included           *)
(*                 history: the minipool last looked at, whether it was      *)
(*                 logged as waiting, the minipools reduceBond was called    *)
(*                 for, those it returned an error for, what the last call   *)
(*                 decided, and the transactions submitted and included      *)

\* a time.Duration of n seconds; a time.Time is in seconds since the epoch
Seconds(n) == n * Second

\* latestBlockTime.Sub(reduceBondTime) (lines 208 and 282)
TimeSince(latestBlockTime, reduceBondTime) == Seconds(latestBlockTime - reduceBondTime)

\* eth.WeiToEth(wei) == 16 (lines 207, 210): the quotient of the balance by the
\* wei of one ETH is 16
IsSixteenEth(wei) == wei = 16 * WeiPerEth

\* the condition of lines 210-213
InWindow(mpd, cancelled, since, windowStart, windowLength) ==
    /\ IsSixteenEth(mpd.NodeDepositBalance)
    /\ since < windowStart + windowLength
    /\ ~cancelled
    /\ mpd.Status = "Staking"

\* the condition of line 214
WindowOpenInclusive(since, windowStart) == since >= windowStart
WindowOpen(since, windowStart) == since > windowStart

\* isDue (lines 283-284)
IsDueInclusive(since, windowStart, windowLength) ==
    (windowStart + windowLength) - since <= windowLength \div reduceBondTimeoutSafetyFactor
IsDue(since, windowStart, windowLength) ==
    (windowStart + windowLength) - since < windowLength \div reduceBondTimeoutSafetyFactor

\* if err != nil { log; return err } in the loop of run (lines 176-179)
ContinuesOnError(err) == FALSE
AbortsOnError(err) == err # NoErr

\* no rewards utility is running
NoCall == [fn |-> "none"]

NoTask ==
    [pc |-> "idle", isAtlasDeployed |-> FALSE, windowStart |-> 0, windowLength |-> 0,
     latestBlockTime |-> 0, count |-> 0, next |-> 1, minipools |-> <<>>, cur |-> 1,
     successCount |-> 0, err |-> NoErr, returned |-> FALSE,
     looked |-> <<>>, logged |-> FALSE, called |-> <<>>, failed |-> <<>>,
     decision |-> <<>>,
     submitted |-> <<>>, included |-> <<>>]

\* return err / return nil from run
RunReturn(task, err) == [task EXCEPT !.pc = "done", !.err = err, !.returned = TRUE]

\* run up to the call of getReduceableMinipools (lines 117-161): the wallet
\* reload, the sync wait, the Atlas check, the node account, the header
RunStart ==
    /\ rb.pc = "run"
    /\ \/ \E e \in {"wallet reload", "eth client not synced"} : rb' = RunReturn(rb, e)
       \/ /\ ~rb.isAtlasDeployed
          /\ rb' = RunReturn(rb, NoErr)
       \/ /\ rb.isAtlasDeployed
          /\ \/ \E e \in {"node account", "can't get the latest block time"} :
                   rb' = RunReturn(rb, e)
             \/ rb' = [rb EXCEPT !.pc = "getReduceableMinipools"]
    /\ UNCHANGED <<snapVars, call>>

\* the snapshot's records of the node's minipools, and the chain's reduce-bond
\* time (seconds) and cancelled flag of each at the pinned block
MinipoolInputs ==
    [MinipoolAddress : 1..MaxMinipools,
     NodeDepositBalance : {8 * WeiPerEth, 16 * WeiPerEth, 16 * WeiPerEth + 1},
     Status : {"Prelaunch", "Staking", "Dissolved"}]

\* one iteration of the loop of getReduceableMinipools (lines 195-221)
LookAtMinipool ==
    /\ rb.pc = "getReduceableMinipools"
    /\ rb.next <= rb.count
    /\ \/ \E e \in {"error getting reduce bond time", "error getting reduce bond cancelled"} :
             rb' = RunReturn([rb EXCEPT !.minipools = <<>>, !.looked = <<>>], e)
       \/ \E mpd \in {m \in MinipoolInputs : m.MinipoolAddress = rb.next},
             reduceBondTime \in 0..rb.latestBlockTime,
             reduceBondCancelled \in BOOLEAN :
             LET since == TimeSince(rb.latestBlockTime, reduceBondTime)
                 inWindow == InWindow(mpd, reduceBondCancelled, since,
                                      rb.windowStart, rb.windowLength)
                 open == WindowOpen(since, rb.windowStart)
                 entry == [mpd |-> mpd, reduceBondTime |-> reduceBondTime,
                           reduceBondCancelled |-> reduceBondCancelled]
             IN  rb' = [rb EXCEPT
                     !.next = rb.next + 1,
                     !.minipools = IF inWindow /\ open THEN Append(rb.minipools, entry)
                                   ELSE rb.minipools,
                     !.logged = inWindow /\ ~open,
                     !.looked = <<entry>>]
    /\ UNCHANGED <<snapVars, call>>

\* the return of getReduceableMinipools and the check of lines 165-167
ReduceableReturned ==
    /\ rb.pc = "getReduceableMinipools"
    /\ rb.next > rb.count
    /\ rb' = IF Len(rb.minipools) = 0
             THEN RunReturn(rb, NoErr)
             ELSE [rb EXCEPT !.pc = "reduceBond", !.cur = 1]
    /\ UNCHANGED <<snapVars, call>>

\* what run does with the result of reduceBond (lines 176-183)
AfterReduceBond(called, success, err) ==
    LET task == [called EXCEPT !.failed =
                    IF err # NoErr
                    THEN Append(@, called.minipools[called.cur].mpd.MinipoolAddress)
                    ELSE @]
    IN  IF AbortsOnError(err) THEN RunReturn(task, err)
        ELSE LET counted == [task EXCEPT !.successCount = IF success THEN @ + 1 ELSE @,
                                         !.cur = task.cur + 1]
             IN  IF counted.cur > Len(task.minipools)
                 THEN RunReturn(counted, NoErr)
                 ELSE [counted EXCEPT !.pc = "reduceBond"]

\* reduceBond up to the decision to submit (lines 229-296)
ReduceBondCheck ==
    /\ rb.pc = "reduceBond"
    /\ LET mp == rb.minipools[rb.cur]
           since == TimeSince(rb.latestBlockTime, mp.reduceBondTime)
           called == [rb EXCEPT !.called = Append(rb.called, mp.mpd.MinipoolAddress)]
       IN  \/ \E e \in {"transactor", "error creating minipool binding",
                        "delegate version is too low", "could not estimate the gas",
                        "max fee", "error getting reduce bond time"} :
                 rb' = AfterReduceBond(
                          [called EXCEPT !.decision = <<[gasOk |-> FALSE, since |-> since,
                                                         outcome |-> "error"]>>],
                          FALSE, e)
           \/ \E gasOk \in BOOLEAN :
                 IF ~gasOk /\ ~IsDue(since, rb.windowStart, rb.windowLength)
                 THEN rb' = AfterReduceBond(
                          [called EXCEPT !.decision = <<[gasOk |-> gasOk, since |-> since,
                                                         outcome |-> "deferred"]>>],
                          FALSE, NoErr)
                 ELSE rb' = [called EXCEPT !.pc = "ReduceBondAmount",
                                           !.decision = <<[gasOk |-> gasOk, since |-> since,
                                                           outcome |-> "submit"]>>]
    /\ UNCHANGED <<snapVars, call>>

\* after the transaction was submitted reduceBond waits for its inclusion
\* (lines 304-308) before it returns
AfterSubmitNoWait(task) == AfterReduceBond(task, TRUE, NoErr)
AfterSubmit(task) == [task EXCEPT !.pc = "WaitForTransaction"]

\* mpv3.ReduceBondAmount(opts) (lines 299-302)
ReduceBondAmount ==
    /\ rb.pc = "ReduceBondAmount"
    /\ \/ rb' = AfterReduceBond(rb, FALSE, "ReduceBondAmount")
       \/ rb' = AfterSubmit([rb EXCEPT !.submitted =
                                Append(rb.submitted,
                                       rb.minipools[rb.cur].mpd.MinipoolAddress)])
    /\ UNCHANGED <<snapVars, call>>

\* api.PrintAndWaitForTransaction and the return of reduceBond (lines 305-314)
WaitForTransaction ==
    /\ rb.pc = "WaitForTransaction"
    /\ \/ rb' = AfterReduceBond(rb, FALSE, "WaitForTransaction")
       \/ rb' = AfterReduceBond(
                   [rb EXCEPT !.included = Append(rb.included,
                                                  rb.minipools[rb.cur].mpd.MinipoolAddress)],
                   TRUE, NoErr)
    /\ UNCHANGED <<snapVars, call>>

-----------------------------------------------------------------------------
(* Snapshots that CalculateEffectiveStakes is run on.  Amounts are in units  *)
(* of ETH and RPL, times in seconds.                                         *)

\* a minipool of the catalogue and the Beacon chain's record of its validator
\* (known: the validator has a status)
Mp(status, exists, user, bond, known, activation, exit) ==
    [Status |-> status, Exists |-> exists, UserDepositBalance |-> user,
     NodeDepositBalance |-> bond, known |-> known,
     ActivationEpoch |-> activation, ExitEpoch |-> exit]

\* the snapshot's slot is slot 10 of a chain with 4 slots per epoch (epoch 2),
\* 2 seconds per slot and genesis at 100: its time is 120
InputBeaconConfig == [GenesisTime |-> 100, SecondsPerSlot |-> 2, SlotsPerEpoch |-> 4]

\* the nodes a snapshot is made of
NodeCatalogue ==
    << \* no minipool, no stake
       [RplStake |-> 0, RegistrationTime |-> 50, minipools |-> <<>>],
       \* one eligible minipool, stake within the bounds
       [RplStake |-> 20, RegistrationTime |-> 50,
        minipools |-> <<Mp("Staking", TRUE, 24, 8, TRUE, 1, 100)>>],
       \* stake under the minimum, registered 5 seconds before the slot
       [RplStake |-> 5, RegistrationTime |-> 115,
        minipools |-> <<Mp("Staking", TRUE, 24, 8, TRUE, 2, 3)>>],
       \* stake over the maximum, registered after the slot
       [RplStake |-> 100, RegistrationTime |-> 125,
        minipools |-> <<Mp("Staking", TRUE, 16, 16, TRUE, 0, 100),
                        Mp("Prelaunch", TRUE, 24, 8, TRUE, 0, 100)>>],
       \* no validator status; activation after the interval; exited
       [RplStake |-> 30, RegistrationTime |-> 50,
        minipools |-> <<Mp("Staking", TRUE, 24, 8, FALSE, 0, 100),
                        Mp("Staking", TRUE, 24, 8, TRUE, 3, 100),
                        Mp("Staking", TRUE, 16, 16, TRUE, 0, 2)>>],
       \* two eligible minipools and one that does not exist, registered
       \* 2 seconds before the slot
       [RplStake |-> 41, RegistrationTime |-> 118,
        minipools |-> <<Mp("Staking", TRUE, 24, 8, TRUE, 0, 100),
                        Mp("Staking", FALSE, 24, 8, TRUE, 0, 100),
                        Mp("Staking", TRUE, 16, 16, TRUE, 1, 4)>>],
       \* a withdrawable and a dissolved minipool, stake equal to the maximum
       [RplStake |-> 40, RegistrationTime |-> 120,
        minipools |-> <<Mp("Withdrawable", TRUE, 24, 8, TRUE, 0, 100),
                        Mp("Staking", TRUE, 24, 8, TRUE, 0, 100),
                        Mp("Dissolved", TRUE, 16, 16, TRUE, 0, 100)>>] >>

\* node i of a snapshot is entry ((first + i - 2) mod size) + 1 of the catalogue
InputProfile(first, i) == NodeCatalogue[((first + i - 2) % Len(NodeCatalogue)) + 1]

\* the minipools of nodes 1..n, node by node; the k-th minipool of node i has
\* public key 10 * i + k
RECURSIVE InputMinipools(_, _)
InputMinipools(first, n) ==
    IF n = 0 THEN <<>>
    ELSE LET prof == InputProfile(first, n)
         IN  InputMinipools(first, n - 1) \o
                 [k \in DOMAIN prof.minipools |->
                     [NodeAddress |-> n, Pubkey |-> 10 * n + k, profile |-> prof.minipools[k]]]

InputSnapshot(n, first, price, interval) ==
    LET raw == InputMinipools(first, n)
        mps == [m \in DOMAIN raw |->
                   [MinipoolAddress |-> m,
                    NodeAddress |-> raw[m].NodeAddress,
                    Pubkey |-> raw[m].Pubkey,
                    Exists |-> raw[m].profile.Exists,
                    Status |-> raw[m].profile.Status,
                    NodeDepositBalance |-> raw[m].profile.NodeDepositBalance,
                    UserDepositBalance |-> raw[m].profile.UserDepositBalance,
                    NodeShareOfBalance |-> 0]]
        nodes == [i \in 1..n |->
                   [NodeAddress |-> i,
                    RplStake |-> InputProfile(first, i).RplStake,
                    RegistrationTime |-> InputProfile(first, i).RegistrationTime]]
    IN  [nil |-> FALSE,
         IsAtlasDeployed |-> TRUE,
         ElBlockNumber |-> 1,
         BeaconSlotNumber |-> 10,
         BeaconConfig |-> InputBeaconConfig,
         NetworkDetails |-> [RplPrice |-> price, MinCollateralFraction |-> 1,
                             MaxCollateralFraction |-> 15, IntervalDuration |-> interval],
         NodeDetails |-> nodes,
         NodeDetailsByAddress |-> NodeLookup(nodes, FALSE),
         MinipoolDetails |-> mps,
         MinipoolDetailsByAddress |-> MinipoolLookup(mps),
         MinipoolDetailsByNode |-> MinipoolsByNode(mps),
         ValidatorDetails |->
            [key \in {raw[m].Pubkey : m \in {x \in DOMAIN raw : raw[x].profile.known}} |->
                LET m == CHOOSE x \in DOMAIN raw : raw[x].Pubkey = key
                IN  [Pubkey |-> key, Balance |-> 32,
                     ActivationEpoch |-> raw[m].profile.ActivationEpoch,
                     ExitEpoch |-> raw[m].profile.ExitEpoch]]]

-----------------------------------------------------------------------------
(* rocketpool/common/rewards: GetClaimStatus (utils.go lines 54-102).        *)
(* A big.Int bitmap is the set of the positions of its 1 bits.               *)

\* mask.Lsh(one, uint(j))
Lsh(j) == {j}
\* maskedBitmap.And(bitmap, mask)
And(bitmap, mask) == bitmap \cap mask
\* maskedBitmap.Cmp(mask) == 0 (line 91)
IsClaimed(bitmap, j) == And(bitmap, Lsh(j)) = Lsh(j)

\* bucket := currentIndex / 256 (line 57)
BucketOf(currentIndex) == currentIndex \div BucketSize

\* targetIndex := i*256 + j (line 80)
TargetIndex(i, j) == i * BucketSize + j

\* if targetIndex >= currentIndex { break } (line 81)
ReachedCurrentExclusive(targetIndex, currentIndex) == targetIndex > currentIndex
ReachedCurrent(targetIndex, currentIndex) == targetIndex >= currentIndex

\* the bits j that the inner loop (lines 79-98) visits for bucket i: those
\* before the first one at which it breaks, all 256 if it does not break
FirstBreak(i, currentIndex) ==
    LET stops == {j \in 0..BucketSize :
                     j = BucketSize \/ ReachedCurrent(TargetIndex(i, j), currentIndex)}
    IN  CHOOSE j \in stops : \A k \in stops : j <= k
Visited(i, currentIndex) == [k \in 1..FirstBreak(i, currentIndex) |-> k - 1]

\* what the inner loop appends to Claimed and to Unclaimed for bucket i
BucketClaimed(bitmap, i, currentIndex) ==
    LET js == SelectSeq(Visited(i, currentIndex), LAMBDA j : IsClaimed(bitmap, j))
    IN  [k \in DOMAIN js |-> TargetIndex(i, js[k])]
BucketUnclaimed(bitmap, i, currentIndex) ==
    LET js == SelectSeq(Visited(i, currentIndex), LAMBDA j : ~IsClaimed(bitmap, j))
    IN  [k \in DOMAIN js |-> TargetIndex(i, js[k])]

\* claimStatus := &ClaimStatus{} (line 76)
EmptyClaimStatus == [Claimed |-> <<>>, Unclaimed |-> <<>>]

\* the call GetClaimStatus(rp, nodeAddress, currentIndex) on a chain whose
\* claim bitmaps of the node are chain[0], chain[1], ...
ClaimStatusCall(currentIndex, chain) ==
    [fn |-> "GetClaimStatus", pc |-> "Query", currentIndex |-> currentIndex,
     chain |-> chain, bucketBitmaps |-> <<>>, queried |-> {}, i |-> 0,
     claimStatus |-> EmptyClaimStatus, err |-> NoErr, returned |-> FALSE]

\* rp.Query over the buckets 0..bucket (lines 60-73)
QueryBitmaps ==
    /\ call.fn = "GetClaimStatus"
    /\ call.pc = "Query"
    /\ LET buckets == 0..BucketOf(call.currentIndex)
       IN  \/ call' = [call EXCEPT !.pc = "done", !.queried = buckets,
                                   !.err = "error getting reward bucket bitmaps",
                                   !.returned = TRUE]
           \/ call' = [call EXCEPT !.pc = "loop", !.queried = buckets,
                                   !.bucketBitmaps = [b \in buckets |-> call.chain[b]]]
    /\ UNCHANGED <<snapVars, rb>>

\* one iteration of the outer loop (lines 77-99)
ClaimStatusBucket ==
    /\ call.fn = "GetClaimStatus"
    /\ call.pc = "loop"
    /\ call.i <= BucketOf(call.currentIndex)
    /\ LET bitmap == call.bucketBitmaps[call.i]
       IN  call' = [call EXCEPT
                      !.i = call.i + 1,
                      !.claimStatus.Claimed =
                          @ \o BucketClaimed(bitmap, call.i, call.currentIndex),
                      !.claimStatus.Unclaimed =
                          @ \o BucketUnclaimed(bitmap, call.i, call.currentIndex)]
    /\ UNCHANGED <<snapVars, rb>>

\* return claimStatus, nil (line 101)
ClaimStatusReturn ==
    /\ call.fn = "GetClaimStatus"
    /\ call.pc = "loop"
    /\ call.i > BucketOf(call.currentIndex)
    /\ call' = [call EXCEPT !.pc = "done", !.returned = TRUE]
    /\ UNCHANGED <<snapVars, rb>>

\* the bits a bitmap of the inputs may have set
InputBits == {0, 2, BucketSize - 1}
\* the current indices GetClaimStatus is asked for
InputIndices ==
    {b * BucketSize + d : b \in 0..MaxClaimBucket, d \in {0, 1, 3, BucketSize - 1}}

-----------------------------------------------------------------------------
(* rocketpool/common/rewards: GetIntervalInfo (utils.go lines 105-174)       *)

\* common.HexToHash of the MerkleRoot string of a rewards file.  The string is
\* <<form, value>>: the hex digits of value written with a 0x prefix, in upper
\* case or without leading zeros all give the hash value; a string that is not
\* hex gives the zero hash
HexToHash(str) == IF str[1] = "not hex" THEN 0 ELSE str[2]
RootStrings == {"0x lower", "upper", "short", "not hex"} \X (1..MaxRoot)

\* merkleRootCanon != merkleRootFromFile (line 150)
RootDiffersNever(canon, fromFile) == FALSE
RootDiffers(canon, fromFile) == canon # fromFile

\* the zero IntervalInfo with info.Index set (line 106)
NewIntervalInfo(interval) ==
    [Index |-> interval, CID |-> 0, StartTime |-> 0, EndTime |-> 0,
     TreeFilePath |-> "", TreeFileExists |-> FALSE, MerkleRootValid |-> FALSE,
     NodeExists |-> FALSE, CollateralRplAmount |-> 0, ODaoRplAmount |-> 0,
     SmoothingPoolEthAmount |-> 0, MerkleProof |-> <<>>]

\* the rewards files a node can have for an interval: none, or one with a root
\* string and the rewards of some of the nodes 1 and 2 (the proof of a node's
\* entry may fail to deserialize)
RewardsFiles ==
    [MerkleRoot : RootStrings,
     NodeRewards : UNION {[nodes -> {[CollateralRpl |-> 5, OracleDaoRpl |-> 3,
                                      SmoothingPoolEth |-> 7, proofOk |-> TRUE],
                                     [CollateralRpl |-> 5, OracleDaoRpl |-> 0,
                                      SmoothingPoolEth |-> 0, proofOk |-> FALSE]}] :
                          nodes \in SUBSET {1, 2}}]

\* The Merkle root of a rewards file's per-node leaves.  The tree generator is
\* not part of the modelled functions; the root is an ideal hash of the leaves:
\* the event with root r commits to the leaves PublishedLeaves(r), and any other
\* leaves hash to a root no event has
PublishedLeaves(r) ==
    LET entry == [CollateralRpl |-> 5, OracleDaoRpl |-> 3, SmoothingPoolEth |-> 7,
                  proofOk |-> TRUE]
    IN  [n \in (IF r = 1 THEN {1} ELSE IF r = 2 THEN {1, 2} ELSE {2}) |-> entry]
MerkleRootOfLeaves(leaves) ==
    IF \E r \in 1..MaxRoot : PublishedLeaves(r) = leaves
    THEN CHOOSE r \in 1..MaxRoot :
             /\ PublishedLeaves(r) = leaves
             /\ \A q \in 1..MaxRoot : PublishedLeaves(q) = leaves => r <= q
    ELSE MaxRoot + 1

\* the call GetIntervalInfo(rp, cfg, nodeAddress, interval, opts) for node 1,
\* where the event of the interval has the given root and the tree file of the
\* interval is file (<<>>: there is none)
IntervalInfoCall(network, interval, root, file) ==
    [fn |-> "GetIntervalInfo", pc |-> "event", network |-> network,
     nodeAddress |-> 1, interval |-> interval,
     event |-> [MerkleTreeCID |-> 10 + root, IntervalStartTime |-> 100,
                IntervalEndTime |-> 200, MerkleRoot |-> root],
     file |-> file, chainReads |-> 0, merkleRootCanon |-> 0, proofWrapper |-> <<>>,
     info |-> NewIntervalInfo(interval), err |-> NoErr, returned |-> FALSE]

\* return (with the named results as they are)
IntervalInfoReturn(c, err) == [c EXCEPT !.pc = "done", !.err = err, !.returned = TRUE]

\* lines 109-123: the event of the interval, hardcoded for the early Prater
\* intervals, read from the chain otherwise
GetIntervalEvent ==
    /\ call.fn = "GetIntervalInfo"
    /\ call.pc = "event"
    /\ LET hardcoded == call.network = "Prater" /\ call.interval < PrehistoryIntervals
           got == [call EXCEPT !.pc = "stat",
                               !.chainReads = IF hardcoded THEN 0 ELSE 1,
                               !.info.CID = call.event.MerkleTreeCID,
                               !.info.StartTime = call.event.IntervalStartTime,
                               !.info.EndTime = call.event.IntervalEndTime,
                               !.merkleRootCanon = call.event.MerkleRoot]
       IN  \/ call' = got
           \/ /\ ~hardcoded
              /\ \E e \in {"error getting rewards pool binding",
                           "error getting rewards event", "event not found"} :
                    call' = IntervalInfoReturn([call EXCEPT !.chainReads = 1], e)
    /\ UNCHANGED <<snapVars, rb>>

\* lines 126-133: os.Stat of the tree file
StatTreeFile ==
    /\ call.fn = "GetIntervalInfo"
    /\ call.pc = "stat"
    /\ LET path == [call EXCEPT !.info.TreeFilePath = "rewards tree path"]
       IN  IF call.file = <<>>
           THEN call' = IntervalInfoReturn([path EXCEPT !.info.TreeFileExists = FALSE], NoErr)
           ELSE call' = [path EXCEPT !.pc = "read", !.info.TreeFileExists = TRUE]
    /\ UNCHANGED <<snapVars, rb>>

\* lines 136-154: the file is read and deserialized and its root compared
ReadTreeFile ==
    /\ call.fn = "GetIntervalInfo"
    /\ call.pc = "read"
    /\ \/ \E e \in {"error reading", "error deserializing"} :
             call' = IntervalInfoReturn(call, e)
       \/ LET proofWrapper == call.file[1]
              merkleRootFromFile == HexToHash(proofWrapper.MerkleRoot)
              read == [call EXCEPT !.proofWrapper = <<proofWrapper>>]
          IN  IF RootDiffers(call.merkleRootCanon, merkleRootFromFile)
              THEN call' = IntervalInfoReturn([read EXCEPT !.info.MerkleRootValid = FALSE],
                                              NoErr)
              ELSE call' = [read EXCEPT !.pc = "rewards", !.info.MerkleRootValid = TRUE]
    /\ UNCHANGED <<snapVars, rb>>

\* lines 157-173: the node's entry of the file
NodeRewardsLookup ==
    /\ call.fn = "GetIntervalInfo"
    /\ call.pc = "rewards"
    /\ LET entries == call.proofWrapper[1].NodeRewards
           exists == call.nodeAddress \in DOMAIN entries
           found == [call EXCEPT !.info.NodeExists = exists]
       IN  IF ~exists THEN call' = IntervalInfoReturn(found, NoErr)
           ELSE LET rewards == entries[call.nodeAddress]
                    filled == [found EXCEPT
                                  !.info.CollateralRplAmount = rewards.CollateralRpl,
                                  !.info.ODaoRplAmount = rewards.OracleDaoRpl,
                                  !.info.SmoothingPoolEthAmount = rewards.SmoothingPoolEth]
                IN  IF ~rewards.proofOk
                    THEN call' = IntervalInfoReturn(filled, "error deserializing merkle proof")
                    ELSE call' = IntervalInfoReturn(
                                    [filled EXCEPT !.info.MerkleProof = <<"proof">>], NoErr)
    /\ UNCHANGED <<snapVars, rb>>

-----------------------------------------------------------------------------
(* rocketpool/common/rewards: the compression of a rewards file              *)
(* (GetCidForRewardsFile lines 336-338, decompressFile lines 369-381).       *)
(* The zstd codec is the klauspost/compress library; it is modelled at the    *)
(* level of the frame format: magic number, frame header with the content     *)
(* size, raw and RLE blocks, content checksum.                                *)

\* the byte values of the model
ByteValues == {0, 7, 255}
ByteSeqs(n) == UNION {[1..k -> ByteValues] : k \in 0..n}

\* the four bytes of the frame magic number 0xFD2FB528, little-endian
ZstdMagic == <<40, 181, 47, 253>>
\* frame header descriptor: single segment, content checksum
FrameHeaderDescriptor == 36

RECURSIVE SumBytes(_)
SumBytes(bytes) == IF bytes = <<>> THEN 0 ELSE Head(bytes) + SumBytes(Tail(bytes))
\* the content checksum, one byte in the model
Checksum(bytes) == (SumBytes(bytes) + Len(bytes)) % 256

\* the three bytes of a block header: last-block bit, block type, block size
BlockHeader(last, type, size) ==
    LET h == (IF last THEN 1 ELSE 0) + 2 * type + 8 * size
    IN  <<h % 256, (h \div 256) % 256, h \div 65536>>

\* one block: RLE when its bytes are one repeated value, raw otherwise
Block(chunk, last) ==
    IF Len(chunk) > 1 /\ \A k \in 1..Len(chunk) : chunk[k] = chunk[1]
    THEN BlockHeader(last, 1, Len(chunk)) \o <<chunk[1]>>
    ELSE BlockHeader(last, 0, Len(chunk)) \o chunk

RECURSIVE Blocks(_)
Blocks(src) ==
    IF Len(src) <= MaxBlockLen THEN Block(src, TRUE)
    ELSE Block(SubSeq(src, 1, MaxBlockLen), FALSE)
             \o Blocks(SubSeq(src, MaxBlockLen + 1, Len(src)))

\* encoder.EncodeAll(src, dst): the frame of src appended to dst; nothing is
\* appended for an empty src
EncodeAll(src, dst) ==
    IF src = <<>> THEN dst
    ELSE dst \o ZstdMagic \o <<FrameHeaderDescriptor, Len(src)>> \o Blocks(src)
             \o <<Checksum(src)>>

\* make([]byte, 0, len(data)) (line 338): the capacity is len(data), the length 0
NewDstFilled(data) == [k \in 1..Len(data) |-> 0]
NewDst(data) == <<>>

\* the blocks of a frame decoded: [ok, bytes, rest]
RECURSIVE DecodeBlocks(_, _)
DecodeBlocks(rest, acc) ==
    IF Len(rest) < 3 THEN [ok |-> FALSE, bytes |-> <<>>, rest |-> <<>>]
    ELSE LET h == rest[1] + 256 * rest[2] + 65536 * rest[3]
             last == h % 2 = 1
             type == (h \div 2) % 4
             size == h \div 8
             used == IF type = 0 THEN 3 + size ELSE 4
             content == IF type = 0 THEN SubSeq(rest, 4, 3 + size)
                        ELSE [k \in 1..size |-> rest[4]]
         IN  IF type > 1 \/ Len(rest) < used
             THEN [ok |-> FALSE, bytes |-> <<>>, rest |-> <<>>]
             ELSE IF last
                  THEN [ok |-> TRUE, bytes |-> acc \o content,
                        rest |-> SubSeq(rest, used + 1, Len(rest))]
                  ELSE DecodeBlocks(SubSeq(rest, used + 1, Len(rest)), acc \o content)

\* decoder.DecodeAll(input, nil): [ok, bytes]; an empty input decodes to nothing
DecodeAll(input) ==
    IF input = <<>> THEN [ok |-> TRUE, bytes |-> <<>>]
    ELSE IF Len(input) < 6 \/ SubSeq(input, 1, 4) # ZstdMagic
                \/ input[5] # FrameHeaderDescriptor
         THEN [ok |-> FALSE, bytes |-> <<>>]
         ELSE LET d == DecodeBlocks(SubSeq(input, 7, Len(input)), <<>>)
              IN  IF /\ d.ok
                     /\ Len(d.bytes) = input[6]
                     /\ d.rest = <<Checksum(d.bytes)>>
                  THEN [ok |-> TRUE, bytes |-> d.bytes]
                  ELSE [ok |-> FALSE, bytes |-> <<>>]

\* decompressFile (lines 369-381): [err, bytes]
decompressFile(compressedBytes) ==
    LET d == DecodeAll(compressedBytes)
    IN  IF d.ok THEN [err |-> NoErr, bytes |-> d.bytes]
        ELSE [err |-> "error decompressing rewards file", bytes |-> <<>>]

\* a serialized rewards file is compressed and the result decompressed
CodecCall(data) ==
    [fn |-> "codec", pc |-> "compress", data |-> data, compressedData |-> <<>>,
     decompressedBytes |-> <<>>, err |-> NoErr, returned |-> FALSE]

\* lines 336-338
Compress ==
    /\ call.fn = "codec"
    /\ call.pc = "compress"
    /\ call' = [call EXCEPT !.pc = "decompress",
                            !.compressedData = EncodeAll(call.data, NewDst(call.data))]
    /\ UNCHANGED <<snapVars, rb>>

\* lines 369-381
Decompress ==
    /\ call.fn = "codec"
    /\ call.pc = "decompress"
    /\ LET r == decompressFile(call.compressedData)
       IN  call' = [call EXCEPT !.pc = "done", !.decompressedBytes = r.bytes,
                                !.err = r.err, !.returned = TRUE]
    /\ UNCHANGED <<snapVars, rb>>

-----------------------------------------------------------------------------
(* rocketpool/common/rewards: DownloadRewardsFile (utils.go lines 267-326)   *)

\* json.Marshal of a rewards file: the root, then the collateral RPL of nodes 1
\* and 2 (0: the node has no entry)
MarshalLeaves(leaves) ==
    [n \in 1..2 |-> IF n \in DOMAIN leaves THEN leaves[n].CollateralRpl ELSE 0]
Marshal(root, leaves) == <<root>> \o MarshalLeaves(leaves)

\* the collateral RPL of one node changed
CorruptLeaves(leaves) ==
    LET n == CHOOSE k \in DOMAIN leaves : \A j \in DOMAIN leaves : k <= j
    IN  [leaves EXCEPT ![n].CollateralRpl = 9]

\* lines 278-282: the mirrors in the order they are tried; the first two name
\* the compressed file (ipfsFilename), the third the rewards tree file itself
Urls ==
    <<[mirror |-> "primary", file |-> "ipfs"],
      [mirror |-> "secondary", file |-> "ipfs"],
      [mirror |-> "github", file |-> "plain"]>>

\* strings.HasSuffix(url, config.RewardsTreeIpfsExtension) (line 306)
HasIpfsSuffix(url) == url.file = "ipfs"

\* what a mirror can answer for the file of an event with the given root
Failures == {"transport error", "status not 200", "body read error"}
Bodies(root) ==
    LET docs == {Marshal(root, PublishedLeaves(root)),
                 Marshal(root, CorruptLeaves(PublishedLeaves(root)))}
    IN  docs \cup {EncodeAll(d, <<>>) : d \in docs}
Responses(root) ==
    [kind : Failures, body : {<<>>}] \cup [kind : {"ok"}, body : Bodies(root)]

\* one iteration of the loop (lines 287-321) for a response: what is to be
\* written, or the failure recorded in errBuilder
Attempt(url, resp) ==
    IF resp.kind # "ok" THEN [outcome |-> resp.kind, writeBytes |-> <<>>]
    ELSE IF HasIpfsSuffix(url)
         THEN LET d == decompressFile(resp.body)
              IN  IF d.err # NoErr
                  THEN [outcome |-> "decompression error", writeBytes |-> <<>>]
                  ELSE [outcome |-> "downloaded", writeBytes |-> d.bytes]
         ELSE [outcome |-> "downloaded", writeBytes |-> resp.body]

\* the loop goes on to the next mirror (continue) or the function returns
ContinuesAlways(outcome) == TRUE
Continues(outcome) == outcome # "downloaded"

\* if err != nil { return fmt.Errorf("error saving interval ...") } (lines 316-318)
WriteErrorIgnored(saved) == FALSE
WriteErrorReturns(saved) == ~saved

\* the error returned when no mirror gave the file (line 324)
AllFailedError(attempts) == <<"download failed", [k \in 1..Len(attempts) |-> attempts[k].outcome]>>

\* the call DownloadRewardsFile(cfg, interval, cid, isDaemon) for the event of
\* the interval; written is what the call wrote to the rewards tree path, file
\* is what is at that path (before: when the call began; <<>>: no file) and
\* writeCalls counts the calls of os.WriteFile
DownloadCall(root) ==
    [fn |-> "DownloadRewardsFile", pc |-> "expand",
     event |-> [MerkleTreeCID |-> 10 + root, MerkleRoot |-> root],
     next |-> 1, attempts |-> <<>>, written |-> <<>>, err |-> NoErr, returned |-> FALSE,
     before |-> <<>>, file |-> <<>>, writeCalls |-> 0]

\* the rewards tree path before the call: no file, or a file of an earlier run
ExistingFiles == {<<>>, <<(<<255, 0, 7>>)>>}

\* os.WriteFile(rewardsTreePath, writeBytes, 0644) (line 315): the path after a
\* write that succeeded, and after one that failed before the file was opened
\* (untouched) or after it was opened with O_TRUNC (emptied)
WriteFile(file, writeBytes) == <<writeBytes>>
WriteFileFailed(file, truncated) == IF truncated THEN <<(<<>>)>> ELSE file

\* lines 269-282
ExpandPath ==
    /\ call.fn = "DownloadRewardsFile"
    /\ call.pc = "expand"
    /\ \/ call' = [call EXCEPT !.pc = "loop"]
       \/ call' = [call EXCEPT !.pc = "done", !.returned = TRUE,
                               !.err = "error expanding rewards tree path"]
    /\ UNCHANGED <<snapVars, rb>>

\* lines 286-322: one mirror is contacted
TryMirror ==
    /\ call.fn = "DownloadRewardsFile"
    /\ call.pc = "loop"
    /\ call.next <= Len(Urls)
    /\ \E resp \in Responses(call.event.MerkleRoot), saved \in BOOLEAN, truncated \in BOOLEAN :
          LET a == Attempt(Urls[call.next], resp)
              tried == [call EXCEPT !.next = @ + 1,
                                    !.attempts = Append(@, [mirror |-> Urls[call.next].mirror,
                                                           outcome |-> a.outcome])]
          IN  IF a.outcome # "downloaded"
              THEN saved /\ ~truncated /\ call' = tried
              ELSE LET done == IF Continues(a.outcome) THEN tried
                               ELSE [tried EXCEPT !.pc = "done", !.returned = TRUE]
                   IN  IF saved
                       THEN /\ ~truncated
                            /\ call' = [done EXCEPT !.written = <<a.writeBytes>>,
                                                    !.file = WriteFile(@, a.writeBytes),
                                                    !.writeCalls = @ + 1]
                       ELSE LET failed == [tried EXCEPT !.file = WriteFileFailed(@, truncated),
                                                        !.writeCalls = @ + 1]
                            IN  IF WriteErrorReturns(saved)
                                THEN call' = [failed EXCEPT !.pc = "done", !.returned = TRUE,
                                                            !.err = "error saving interval file"]
                                ELSE call' = failed
    /\ UNCHANGED <<snapVars, rb>>

\* line 324: every mirror was tried
AllMirrorsTried ==
    /\ call.fn = "DownloadRewardsFile"
    /\ call.pc = "loop"
    /\ call.next > Len(Urls)
    /\ call' = [call EXCEPT !.pc = "done", !.returned = TRUE,
                            !.err = AllFailedError(call.attempts)]
    /\ UNCHANGED <<snapVars, rb>>

-----------------------------------------------------------------------------
(* rocketpool/common/rewards: GetELBlockHeaderForTime (utils.go 196-264)     *)

\* minimumDistance is <<d>>, or <<>> for +math.Inf(1)
Inf == <<>>
IsLess(distance, minimumDistance) ==
    minimumDistance = Inf \/ distance < minimumDistance[1]
Abs(x) == IF x < 0 THEN 0 - x ELSE x
\* math.Ceil(float64(pivotSize) / 2)
HalfRoundedDown(pivotSize) == pivotSize \div 2
HalfRoundedUp(pivotSize) == (pivotSize + 1) \div 2
\* big.Int.Uint64: the low 64 bits of the magnitude, also for a negative number
\* (the block numbers of the model are far below 2^64)
Uint64(x) == Abs(x)

\* the block times of a chain with head block head: block 0 is at time 1
RECURSIVE Chains(_)
Chains(head) ==
    IF head = 0 THEN {<<1>>}
    ELSE {Append(c, c[Len(c)] + gap) : c \in Chains(head - 1), gap \in 0..MaxBlockGap}
TimeOfBlock(chain, number) == chain[number + 1]
HeadOf(chain) == Len(chain) - 1

\* the negative block numbers the client sends as a tag (pending, latest, ...)
\* instead of a number
TagNumbers == 4

\* rp.Client.HeaderByNumber(ctx, number): the headers it can return; the empty
\* set when it can only fail.  A number that is a tag gives the head
HeadersByNumber(chain, number) ==
    IF number >= 0 /\ number <= HeadOf(chain)
    THEN {[Number |-> number, Time |-> TimeOfBlock(chain, number)]}
    ELSE IF number < 0 /\ number >= 0 - TagNumbers
         THEN {[Number |-> HeadOf(chain), Time |-> TimeOfBlock(chain, HeadOf(chain))]}
         ELSE {}

NoHeader == [Number |-> -1, Time |-> 0]

\* lines 254-257: the candidate is clamped to the block before the latest (the
\* latest block is at least 1, so latestBlock.Uint64() - 1 does not wrap)
ClampToLatest(candidate, latestBlock) ==
    IF Uint64(candidate) > Uint64(latestBlock) - 1
    THEN Uint64(latestBlock) - 1
    ELSE candidate

\* line 229: the search ends when the pivot is down to 1 and nothing got better
PivotDone(pivotSize) == pivotSize = 1

\* line 231: the walk back goes on while the candidate is after the target
WalksBack(candidateTime, targetTimeUnix) == candidateTime > targetTimeUnix

\* the call GetELBlockHeaderForTime(targetTime, rp) on a chain
LocatorCall(chain, deployBlock, targetTime) ==
    [fn |-> "GetELBlockHeaderForTime", pc |-> "start", chain |-> chain,
     DeployBlock |-> deployBlock, targetTimeUnix |-> targetTime,
     latestBlock |-> 0, candidateBlockNumber |-> 0, candidateBlock |-> NoHeader,
     bestBlock |-> NoHeader, pivotSize |-> 0, firstPivot |-> 0, minimumDistance |-> Inf,
     halvings |-> 0, probes |-> 0, result |-> NoHeader, err |-> NoErr, returned |-> FALSE]

LocatorFail(c, msg) == [c EXCEPT !.pc = "done", !.err = msg, !.returned = TRUE]

\* lines 198-217
LocatorStart ==
    /\ call.fn = "GetELBlockHeaderForTime"
    /\ call.pc = "start"
    /\ \/ call' = LocatorFail(call, "error getting latest block header")
       \/ LET latestBlock == HeadOf(call.chain)
              delta == (latestBlock - call.DeployBlock) \div 2
              candidateBlockNumber == latestBlock - delta
              got == [call EXCEPT !.latestBlock = latestBlock,
                                  !.candidateBlockNumber = candidateBlockNumber,
                                  !.probes = 1]
          IN  \/ call' = LocatorFail(got, "error getting EL block")
              \/ \E candidateBlock \in HeadersByNumber(call.chain, candidateBlockNumber) :
                    call' = [got EXCEPT !.pc = "loop",
                                        !.candidateBlock = candidateBlock,
                                        !.bestBlock = candidateBlock,
                                        !.pivotSize = Uint64(candidateBlock.Number),
                                        !.firstPivot = Uint64(candidateBlock.Number)]
    /\ UNCHANGED <<snapVars, rb>>

\* lines 219-262: one iteration of the search loop
LocatorProbe ==
    /\ call.fn = "GetELBlockHeaderForTime"
    /\ call.pc = "loop"
    /\ LET candidateTime == call.candidateBlock.Time
           delta == call.targetTimeUnix - candidateTime
           distance == Abs(delta)
           better == IsLess(distance, call.minimumDistance)
       IN  IF ~better /\ PivotDone(call.pivotSize)
           THEN call' = [call EXCEPT !.pc = "walk"]
           ELSE LET pivotSize == HalfRoundedUp(call.pivotSize)
                    moved == IF delta < 0 THEN call.candidateBlockNumber - pivotSize
                             ELSE call.candidateBlockNumber + pivotSize
                    candidateBlockNumber == ClampToLatest(moved, call.latestBlock)
                    next == [call EXCEPT
                                !.minimumDistance = IF better THEN <<distance>> ELSE @,
                                !.bestBlock = IF better THEN call.candidateBlock ELSE @,
                                !.pivotSize = pivotSize,
                                !.halvings = @ + 1,
                                !.candidateBlockNumber = candidateBlockNumber,
                                !.probes = @ + 1]
                IN  \/ call' = LocatorFail(next, "error getting EL block")
                    \/ \E candidateBlock \in HeadersByNumber(call.chain, candidateBlockNumber) :
                          call' = [next EXCEPT !.candidateBlock = candidateBlock]
    /\ UNCHANGED <<snapVars, rb>>

\* lines 231-241: the walk back to a block that is not after the target
LocatorWalkBack ==
    /\ call.fn = "GetELBlockHeaderForTime"
    /\ call.pc = "walk"
    /\ IF WalksBack(call.candidateBlock.Time, call.targetTimeUnix)
       THEN LET candidateBlockNumber == call.candidateBlockNumber - 1
                next == [call EXCEPT !.candidateBlockNumber = candidateBlockNumber,
                                     !.probes = @ + 1]
            IN  \/ call' = LocatorFail(next, "error getting EL block")
                \/ \E candidateBlock \in HeadersByNumber(call.chain, candidateBlockNumber) :
                      call' = [next EXCEPT !.candidateBlock = candidateBlock,
                                           !.bestBlock = candidateBlock]
       ELSE call' = [call EXCEPT !.pc = "done", !.result = call.bestBlock,
                                 !.returned = TRUE]
    /\ UNCHANGED <<snapVars, rb>>

-----------------------------------------------------------------------------
(* rocketpool/common/rewards: GetStartSlotForInterval (utils.go 384-427)     *)

\* beaconConfig.SlotsPerEpoch in the model
EpochLengths == {2, 3}

\* line 407: the scan goes on while the slot's epoch is not after the head's
ScanContinuesBeforeHead(currentEpoch, headEpoch) == currentEpoch < headEpoch
ScanContinues(currentEpoch, headEpoch) == currentEpoch <= headEpoch

\* the call GetStartSlotForInterval(previousIntervalEvent, bc, beaconConfig);
\* blocks are the slots of the Beacon chain that have a block
StartSlotCall(slotsPerEpoch, headSlot, previousSlot, blocks) ==
    [fn |-> "GetStartSlotForInterval", pc |-> "begin", SlotsPerEpoch |-> slotsPerEpoch,
     headSlot |-> headSlot, ConsensusBlock |-> previousSlot, blocks |-> blocks,
     headEpoch |-> 0, consensusStartBlock |-> 0, currentEpoch |-> 0, found |-> FALSE,
     scanned |-> <<>>, result |-> 0, err |-> NoErr, returned |-> FALSE]

StartSlotFail(c, msg) == [c EXCEPT !.pc = "done", !.err = msg, !.returned = TRUE]

\* lines 385-406
StartSlotBegin ==
    /\ call.fn = "GetStartSlotForInterval"
    /\ call.pc = "begin"
    /\ \/ \E msg \in {"error getting Beacon chain head",
                      "error verifying block from previous interval"} :
             call' = StartSlotFail(call, msg)
       \/ IF call.ConsensusBlock \notin call.blocks
          THEN call' = StartSlotFail(call, "couldn't retrieve CL block from previous interval")
          ELSE LET previousEpoch == call.ConsensusBlock \div call.SlotsPerEpoch
                   nextEpoch == previousEpoch + 1
                   consensusStartBlock == nextEpoch * call.SlotsPerEpoch
               IN  call' = [call EXCEPT
                               !.pc = "scan",
                               !.headEpoch = call.headSlot \div call.SlotsPerEpoch,
                               !.consensusStartBlock = consensusStartBlock,
                               !.currentEpoch = consensusStartBlock \div call.SlotsPerEpoch]
    /\ UNCHANGED <<snapVars, rb>>

\* lines 407-419: one iteration of the scan
StartSlotScan ==
    /\ call.fn = "GetStartSlotForInterval"
    /\ call.pc = "scan"
    /\ ScanContinues(call.currentEpoch, call.headEpoch)
    /\ \/ call' = StartSlotFail(call, "error getting EL data for BC slot")
       \/ LET looked == [call EXCEPT !.scanned = Append(@, call.consensusStartBlock)]
          IN  IF call.consensusStartBlock \notin call.blocks
              THEN call' = [looked EXCEPT
                               !.consensusStartBlock = @ + 1,
                               !.currentEpoch = (call.consensusStartBlock + 1)
                                                    \div call.SlotsPerEpoch]
              ELSE call' = [looked EXCEPT !.found = TRUE, !.pc = "end"]
    /\ UNCHANGED <<snapVars, rb>>

\* lines 421-426; the loop condition of line 407 is false or the loop was left
StartSlotEnd ==
    /\ call.fn = "GetStartSlotForInterval"
    /\ \/ call.pc = "end"
       \/ call.pc = "scan" /\ ~ScanContinues(call.currentEpoch, call.headEpoch)
    /\ IF ~call.found
       THEN call' = StartSlotFail(call, "scanned up to the chain head but none of the blocks were found")
       ELSE call' = [call EXCEPT !.pc = "done", !.result = call.consensusStartBlock,
                                 !.returned = TRUE]
    /\ UNCHANGED <<snapVars, rb>>

-----------------------------------------------------------------------------
(* rocketpool/common/rewards: GetCidForRewardsFile (utils.go lines 329-366)  *)

\* lines 341-346: the in-memory file and the file system holding it
MapFile(compressedData, now) == [Data |-> compressedData, Mode |-> 420, ModTime |-> now]

\* dagFmtr.Add(file, "", fsMap) (line 360): the file's bytes are chunked into a
\* Merkle DAG under the file's name, and the root's identifier is the hash of
\* what the DAG holds; the hash is an ideal one, the value hashed itself
DagAddWithModTime(filename, mapFile) ==
    [name |-> filename, blocks |-> mapFile.Data, mtime |-> mapFile.ModTime]
DagAdd(filename, mapFile) == [name |-> filename, blocks |-> mapFile.Data, mtime |-> 0]

\* cid.Cid{}
UndefCid == [name |-> "", blocks |-> <<>>, mtime |-> 0]

\* GetCidForRewardsFile(rewardsFile, filename) called at the time now
GetCidForRewardsFile(root, leaves, filename, now) ==
    LET data == Marshal(root, leaves)
        compressedData == EncodeAll(data, NewDst(data))
        mapFile == MapFile(compressedData, now)
    IN  {[ModTime |-> now, cid |-> UndefCid, err |-> e] :
            e \in {"error serializing rewards file", "error creating DAG adder",
                   "error adding rewards file to DAG"}}
        \cup {[ModTime |-> now, cid |-> DagAdd(filename, mapFile), err |-> NoErr]}

\* the calls made with one rewards file and file name
CidCalls(root, leaves, filename) ==
    [fn |-> "GetCidForRewardsFile", root |-> root, leaves |-> leaves,
     filename |-> filename, now |-> 0, results |-> <<>>]

\* one call, made later than the calls before it
GetCid ==
    /\ call.fn = "GetCidForRewardsFile"
    /\ \E now \in (call.now + 1)..MaxClock :
          \E r \in GetCidForRewardsFile(call.root, call.leaves, call.filename, now) :
             call' = [call EXCEPT !.now = now, !.results = Append(@, r)]
    /\ UNCHANGED <<snapVars, rb>>

-----------------------------------------------------------------------------
(* shared/services/rocketpool: pipeOutput (client.go 1054-1087)              *)

Pipes == {"stdout", "stderr"}

\* a copier goroutine: not yet started by its go statement, at wg.Add(1), in
\* io.Copy, at the deferred wg.Done(), or finished; left is what the command
\* has still to write to the pipe before closing it
Copier(chunks) == [pc |-> "go", left |-> chunks, copied |-> 0, logged |-> FALSE]

\* the call pipeOutput(cmdOut, cmdErr): var wg sync.WaitGroup has counter 0
PipeCall(outChunks, errChunks) ==
    [fn |-> "pipeOutput", pc |-> "go pipeToStdOut", counter |-> 0,
     copiers |-> [p \in Pipes |-> Copier(IF p = "stdout" THEN outChunks ELSE errChunks)],
     returned |-> FALSE, panicked |-> FALSE]

\* wg.Wait() returns when the counter is 0 (sync.WaitGroup)
WaitReturns(c) == c.counter = 0

\* go pipeToStdOut(cmdOut, &wg); go pipeToStdErr(cmdErr, &wg) (lines 1083-1084)
PipeGo ==
    /\ call.fn = "pipeOutput"
    /\ ~call.panicked
    /\ \/ /\ call.pc = "go pipeToStdOut"
          /\ call' = [call EXCEPT !.pc = "go pipeToStdErr", !.copiers["stdout"].pc = "Add"]
       \/ /\ call.pc = "go pipeToStdErr"
          /\ call' = [call EXCEPT !.pc = "Wait", !.copiers["stderr"].pc = "Add"]
    /\ UNCHANGED <<snapVars, rb>>

\* wg.Add(1), the first statement of the goroutine (lines 1057, 1070)
PipeAdd(p) ==
    /\ call.fn = "pipeOutput"
    /\ ~call.panicked
    /\ call.copiers[p].pc = "Add"
    /\ call' = [call EXCEPT !.counter = @ + 1, !.copiers[p].pc = "Copy"]
    /\ UNCHANGED <<snapVars, rb>>

\* io.Copy(os.Stdout, cmdOut) (lines 1060-1063, 1073-1076): a chunk is copied,
\* or the pipe is closed and the copy ends, or it fails and the error is logged
PipeCopy(p) ==
    /\ call.fn = "pipeOutput"
    /\ ~call.panicked
    /\ call.copiers[p].pc = "Copy"
    /\ \/ /\ call.copiers[p].left > 0
          /\ call' = [call EXCEPT !.copiers[p].left = @ - 1, !.copiers[p].copied = @ + 1]
       \/ /\ call.copiers[p].left = 0
          /\ call' = [call EXCEPT !.copiers[p].pc = "Done"]
       \/ call' = [call EXCEPT !.copiers[p].pc = "Done", !.copiers[p].logged = TRUE]
    /\ UNCHANGED <<snapVars, rb>>

\* defer wg.Done() (lines 1058, 1071): a waiter blocked in Wait is woken when
\* the counter reaches 0
PipeDone(p) ==
    /\ call.fn = "pipeOutput"
    /\ ~call.panicked
    /\ call.copiers[p].pc = "Done"
    /\ call' = [call EXCEPT !.counter = @ - 1, !.copiers[p].pc = "finished",
                            !.pc = IF call.pc = "blocked" /\ call.counter = 1 THEN "woken" ELSE @]
    /\ UNCHANGED <<snapVars, rb>>

\* wg.Wait() (line 1086): it returns at once when the counter is 0 and blocks
\* otherwise; a woken waiter that finds the counter raised again panics
\* ("sync: WaitGroup is reused before previous Wait has returned")
PipeWait ==
    /\ call.fn = "pipeOutput"
    /\ ~call.panicked
    /\ \/ /\ call.pc = "Wait"
          /\ IF WaitReturns(call)
             THEN call' = [call EXCEPT !.pc = "done", !.returned = TRUE]
             ELSE call' = [call EXCEPT !.pc = "blocked"]
       \/ /\ call.pc = "woken"
          /\ IF WaitReturns(call)
             THEN call' = [call EXCEPT !.pc = "done", !.returned = TRUE]
             ELSE call' = [call EXCEPT !.panicked = TRUE]
    /\ UNCHANGED <<snapVars, rb>>

-----------------------------------------------------------------------------
(* rocketpool/api/auction: recoverRplFromLot (handler.go 52-137)             *)

\* fmt.Errorf(format + ": %w", err): a non-nil error whatever err is, also
\* when err is nil
Errorf(msg, err) == <<msg, err>>
\* if err != nil { return fmt.Errorf(format, err) }; return nil
ErrorfIfError(msg, err) == IF err # NoErr THEN <<msg, err>> ELSE NoErr

\* what the worker of lines 103-109 returns for the err of HeaderByNumber
HeaderWorkerReturn(err) == Errorf("error getting current EL block header", err)

\* the first error returned by a worker is the one the errgroup keeps
KeepFirst(kept, err) == IF kept = NoErr THEN err ELSE kept

\* api.RecoverRPLFromLotResponse{} (line 71)
EmptyRecoverResponse ==
    [DoesNotExist |-> FALSE, BiddingNotEnded |-> FALSE, NoUnclaimedRPL |-> FALSE,
     RPLAlreadyRecovered |-> FALSE, CanRecover |-> FALSE, TxInfo |-> FALSE]

\* lines 117-121
CheckValidity(response, details, currentBlock) ==
    LET DoesNotExist == ~details.Exists
        BiddingNotEnded == ~(currentBlock >= details.EndBlock)
        NoUnclaimedRPL == details.RemainingRplAmount = 0
        RPLAlreadyRecovered == details.RplRecovered
    IN  [response EXCEPT
            !.DoesNotExist = DoesNotExist,
            !.BiddingNotEnded = BiddingNotEnded,
            !.NoUnclaimedRPL = NoUnclaimedRPL,
            !.RPLAlreadyRecovered = RPLAlreadyRecovered,
            !.CanRecover = ~(DoesNotExist \/ BiddingNotEnded \/ NoUnclaimedRPL
                                \/ RPLAlreadyRecovered)]

\* lot.Details before the query (the zero value of the binding)
NoLotDetails == [Exists |-> FALSE, EndBlock |-> 0, RemainingRplAmount |-> 0, RplRecovered |-> FALSE]

\* the call recoverRplFromLot(c, lotIndex): chainLot is the lot on chain,
\* head the number of the latest block
RecoverCall(chainLot, head) ==
    [fn |-> "recoverRplFromLot", pc |-> "services", chainLot |-> chainLot, head |-> head,
     Details |-> NoLotDetails, currentBlock |-> 0,
     pending |-> {"query", "header"}, queryErr |-> NoErr, headerErr |-> NoErr,
     wgErr |-> NoErr, response |-> EmptyRecoverResponse, txInfoBuilt |-> FALSE,
     responseReturned |-> FALSE, err |-> NoErr, returned |-> FALSE]

RecoverFail(c, e) == [c EXCEPT !.pc = "done", !.err = e, !.returned = TRUE]

\* lines 55-85: the services and the bindings
RecoverServices ==
    /\ call.fn = "recoverRplFromLot"
    /\ call.pc = "services"
    /\ \/ \E e \in {"node wallet required", "rocket storage required", "no wallet",
                   "no rocket pool"} : call' = RecoverFail(call, e)
       \/ \E msg \in {"error creating lot binding", "error creating pDAO settings binding"} :
             call' = RecoverFail(call, Errorf(msg, "binding error"))
       \/ call' = [call EXCEPT !.pc = "workers"]
    /\ UNCHANGED <<snapVars, rb>>

\* lines 87-100: the worker that queries the contract state
RecoverQueryWorker ==
    /\ call.fn = "recoverRplFromLot"
    /\ call.pc = "workers"
    /\ "query" \in call.pending
    /\ \E err \in {NoErr, "query failed"} :
          LET workerErr == ErrorfIfError("error getting contract state", err)
          IN  call' = [call EXCEPT
                          !.pending = @ \ {"query"},
                          !.queryErr = err,
                          !.Details = IF err = NoErr THEN call.chainLot ELSE @,
                          !.wgErr = KeepFirst(@, workerErr)]
    /\ UNCHANGED <<snapVars, rb>>

\* lines 103-109: the worker that gets the current block
RecoverHeaderWorker ==
    /\ call.fn = "recoverRplFromLot"
    /\ call.pc = "workers"
    /\ "header" \in call.pending
    /\ \E err \in {NoErr, "header failed"} :
          call' = [call EXCEPT
                      !.pending = @ \ {"header"},
                      !.headerErr = err,
                      !.currentBlock = IF err = NoErr THEN call.head ELSE @,
                      !.wgErr = KeepFirst(@, HeaderWorkerReturn(err))]
    /\ UNCHANGED <<snapVars, rb>>

\* lines 112-136: wg.Wait() and its check, the validity flags, the transaction
\* info, built only if CanRecover, and the return
RecoverWait ==
    /\ call.fn = "recoverRplFromLot"
    /\ call.pc = "workers"
    /\ call.pending = {}
    /\ IF call.wgErr # NoErr
       THEN call' = RecoverFail(call, call.wgErr)
       ELSE LET response == CheckValidity(call.response, call.Details, call.currentBlock)
                checked == [call EXCEPT !.response = response]
            IN  IF response.CanRecover
                THEN \/ \E msg \in {"error getting node account transactor",
                                    "error getting TX info for RecoverUnclaimedRpl"} :
                           call' = RecoverFail(checked, Errorf(msg, "failed"))
                     \/ call' = [checked EXCEPT !.pc = "done", !.response.TxInfo = TRUE,
                                                !.txInfoBuilt = TRUE,
                                                !.responseReturned = TRUE, !.returned = TRUE]
                ELSE call' = [checked EXCEPT !.pc = "done", !.responseReturned = TRUE,
                                             !.returned = TRUE]
    /\ UNCHANGED <<snapVars, rb>>

-----------------------------------------------------------------------------
(* shared/services/rocketpool: the gas settings of Client (client.go)        *)

\* NewClient(..., maxFee, maxPrioFee, gasLimit, ...) (lines 165-176)
NewClient(daemonPath, maxFee, maxPrioFee, gasLimit) ==
    [fn |-> "Client", daemonPath |-> daemonPath,
     maxFee |-> maxFee, maxPrioFee |-> maxPrioFee, gasLimit |-> gasLimit,
     originalMaxFee |-> maxFee, originalMaxPrioFee |-> maxPrioFee,
     originalGasLimit |-> gasLimit,
     calls |-> 0, afterCall |-> FALSE, cmd |-> <<>>, err |-> NoErr]

\* GetGasSettings (lines 633-635)
GetGasSettings(c) == <<c.maxFee, c.maxPrioFee, c.gasLimit>>

\* getGasOpts (lines 1017-1023)
getGasOpts(c) == <<"--maxFee", c.maxFee, "--maxPrioFee", c.maxPrioFee, "--gasLimit", c.gasLimit>>

\* lines 996-999: reset the gas settings after the call
ResetGasSettings(c) ==
    [c EXCEPT !.maxFee = c.originalMaxFee,
              !.maxPrioFee = c.originalMaxPrioFee,
              !.gasLimit = c.originalGasLimit]

\* AssignGasSettings(maxFee, maxPrioFee, gasLimit) (lines 638-642)
AssignGasSettings ==
    /\ call.fn = "Client"
    /\ call.calls < MaxCalls
    /\ \E maxFee \in 0..MaxGas, maxPrioFee \in 0..MaxGas, gasLimit \in 0..MaxGas :
          call' = [call EXCEPT !.maxFee = maxFee, !.maxPrioFee = maxPrioFee,
                               !.gasLimit = gasLimit, !.afterCall = FALSE]
    /\ UNCHANGED <<snapVars, rb>>

\* callAPI(args, otherArgs...) (lines 946-1002): without a daemon path the
\* name of the API container is looked up first, and the call returns its
\* error; otherwise the command runs with the gas options and the settings
\* are reset
callAPI ==
    /\ call.fn = "Client"
    /\ call.calls < MaxCalls
    /\ \/ /\ call.daemonPath = ""
          /\ call' = [call EXCEPT !.calls = @ + 1, !.afterCall = TRUE, !.cmd = <<>>,
                                  !.err = "Rocket Pool docker project name not set"]
       \/ \E err \in {NoErr, "exit status 1"} :
             call' = [ResetGasSettings(call) EXCEPT
                         !.calls = @ + 1, !.afterCall = TRUE,
                         !.cmd = getGasOpts(call), !.err = err]
    /\ UNCHANGED <<snapVars, rb>>

-----------------------------------------------------------------------------
(* The specifications *)


InitCreate ==
    /\ pc = "GetBeaconBlock"
    /\ slotNumber \in Slots
    /\ beaconBlock = [outcome |-> "none", exists |-> FALSE, ExecutionBlockNumber |-> 0]
    /\ elBlockNumber = 0
    /\ isAtlasDeployed = FALSE
    /\ state = NilState
    /\ wg = NoGroup
    /\ ret = NoReturn
    /\ elReads = {}
    /\ clReads = {}
    /\ failures = <<>>
    /\ stakes = NoStakes
    /\ writes = {}
    /\ rb = NoTask
    /\ call = NoCall

NextCreate ==
    \/ GetBeaconBlock
    \/ CheckAtlas
    \/ NewNetworkContracts
    \/ NetGo
    \/ \E i \in 1..(Len(AllWorkers) + Len(AtlasWorkers)) : NetWorker(i)
    \/ NetWait
    \/ GetAllNativeNodeDetails
    \/ GetAllNativeMinipoolDetails
    \/ GetValidatorStatuses
    \/ CalculateCompleteMinipoolShares

\* CalculateEffectiveStakes is called on a built snapshot
InitStakes ==
    \E n \in 0..MaxNodes, first \in DOMAIN NodeCatalogue, price \in {1, 3},
       minFraction \in {1, 5}, maxFraction \in {2, 15}, scale \in BOOLEAN :
        LET s == [InputSnapshot(n, first, price, 10) EXCEPT
                     !.NetworkDetails.MinCollateralFraction = minFraction,
                     !.NetworkDetails.MaxCollateralFraction = maxFraction]
        IN  /\ pc = "CalculateEffectiveStakes"
            /\ slotNumber = s.BeaconSlotNumber
            /\ beaconBlock = [outcome |-> "ok", exists |-> TRUE,
                              ExecutionBlockNumber |-> s.ElBlockNumber]
            /\ elBlockNumber = s.ElBlockNumber
            /\ isAtlasDeployed = s.IsAtlasDeployed
            /\ state = s
            /\ wg = NewGroup(Len(s.NodeDetails))
            /\ ret = Returned(s, NoErr)
            /\ elReads = {}
            /\ clReads = {}
            /\ failures = <<>>
            /\ stakes = EnteredStakes(s, scale)
            /\ writes = {}
            /\ rb = NoTask
            /\ call = NoCall

NextStakes ==
    \/ StakesGo
    \/ \E i \in 1..MaxNodes : StakesWorker(i)
    \/ StakesWait

\* one pass of the reduceBonds task over a snapshot whose block is at
\* latestBlockTime; the window settings are those of the snapshot
InitReduce ==
    /\ pc = "idle"
    /\ slotNumber = 0
    /\ beaconBlock = [outcome |-> "none", exists |-> FALSE, ExecutionBlockNumber |-> 0]
    /\ elBlockNumber = 0
    /\ isAtlasDeployed = FALSE
    /\ state = NilState
    /\ wg = NoGroup
    /\ ret = NoReturn
    /\ elReads = {}
    /\ clReads = {}
    /\ failures = <<>>
    /\ stakes = NoStakes
    /\ writes = {}
    /\ call = NoCall
    /\ \E atlas \in BOOLEAN, start \in 0..1, length \in 1..MaxWindow, n \in 0..MaxMinipools :
          rb = [NoTask EXCEPT !.pc = "run",
                              !.isAtlasDeployed = atlas,
                              !.windowStart = Seconds(start),
                              !.windowLength = Seconds(length),
                              !.latestBlockTime = MaxWindow + 2,
                              !.count = n]

NextReduce ==
    \/ RunStart
    \/ LookAtMinipool
    \/ ReduceableReturned
    \/ ReduceBondCheck
    \/ ReduceBondAmount
    \/ WaitForTransaction

\* CreateNetworkState builds one snapshot
Spec == InitCreate /\ [][NextCreate]_vars

\* CalculateEffectiveStakes runs on one snapshot
SpecStakes == InitStakes /\ [][NextStakes]_vars

\* either of the two functions that fan out over an errgroup runs
SpecFanOut == (InitCreate \/ InitStakes) /\ [][NextCreate \/ NextStakes]_vars

\* the reduceBonds task runs one pass
SpecReduce == InitReduce /\ [][NextReduce]_vars

\* a state in which only a rewards utility runs
IdleNode ==
    /\ pc = "idle"
    /\ slotNumber = 0
    /\ beaconBlock = [outcome |-> "none", exists |-> FALSE, ExecutionBlockNumber |-> 0]
    /\ elBlockNumber = 0
    /\ isAtlasDeployed = FALSE
    /\ state = NilState
    /\ wg = NoGroup
    /\ ret = NoReturn
    /\ elReads = {}
    /\ clReads = {}
    /\ failures = <<>>
    /\ stakes = NoStakes
    /\ writes = {}
    /\ rb = NoTask

\* GetClaimStatus is called once
InitClaimStatus ==
    /\ IdleNode
    /\ \E currentIndex \in InputIndices :
          \E chain \in [0..BucketOf(currentIndex) -> SUBSET InputBits] :
              call = ClaimStatusCall(currentIndex, chain)

NextClaimStatus ==
    \/ QueryBitmaps
    \/ ClaimStatusBucket
    \/ ClaimStatusReturn

SpecClaimStatus == InitClaimStatus /\ [][NextClaimStatus]_vars

\* GetIntervalInfo is called once
InitIntervalInfo ==
    /\ IdleNode
    /\ \E network \in {"Prater", "Mainnet"},
          interval \in {PrehistoryIntervals - 1, PrehistoryIntervals},
          root \in 1..MaxRoot,
          file \in {<<>>} \cup {<<f>> : f \in RewardsFiles} :
          call = IntervalInfoCall(network, interval, root, file)

NextIntervalInfo ==
    \/ GetIntervalEvent
    \/ StatTreeFile
    \/ ReadTreeFile
    \/ NodeRewardsLookup

SpecIntervalInfo == InitIntervalInfo /\ [][NextIntervalInfo]_vars

\* a serialized rewards file is compressed and decompressed again
InitCodec ==
    /\ IdleNode
    /\ \E data \in ByteSeqs(MaxLen) : call = CodecCall(data)

NextCodec ==
    \/ Compress
    \/ Decompress

SpecCodec == InitCodec /\ [][NextCodec]_vars

\* DownloadRewardsFile is called once for an interval's event
InitDownload ==
    /\ IdleNode
    /\ \E root \in 1..MaxRoot, old \in ExistingFiles :
          call = [DownloadCall(root) EXCEPT !.before = old, !.file = old]

NextDownload ==
    \/ ExpandPath
    \/ TryMirror
    \/ AllMirrorsTried

SpecDownload == InitDownload /\ [][NextDownload]_vars

\* GetELBlockHeaderForTime is called once on a chain whose block times do not
\* decrease, with the deploy block at or before the head and a target time from
\* before block 0 to after the head
InitLocator ==
    /\ IdleNode
    /\ \E head \in 1..MaxHead :
          \E chain \in Chains(head), deployBlock \in 0..head :
             \E targetTime \in 0..(TimeOfBlock(chain, head) + 1) :
                call = LocatorCall(chain, deployBlock, targetTime)

NextLocator ==
    \/ LocatorStart
    \/ LocatorProbe
    \/ LocatorWalkBack

SpecLocator == InitLocator /\ [][NextLocator]_vars

\* the caller runs the function to its end
SpecLocatorFair == SpecLocator /\ WF_vars(NextLocator)

\* GetStartSlotForInterval is called once: the Beacon chain has blocks up to
\* its head slot except in a range of missed slots, and the node may not have
\* the block of the previous interval
InitStartSlot ==
    /\ IdleNode
    /\ \E slotsPerEpoch \in EpochLengths :
          \E headSlot \in 0..((MaxEpoch + 1) * slotsPerEpoch - 1) :
             \E previousSlot \in 0..headSlot, hasPrevious \in BOOLEAN,
                from \in 0..headSlot, to \in 0..headSlot :
                call = StartSlotCall(slotsPerEpoch, headSlot, previousSlot,
                          ((0..headSlot) \ ((from..to) \cup {previousSlot}))
                              \cup (IF hasPrevious THEN {previousSlot} ELSE {}))

NextStartSlot ==
    \/ StartSlotBegin
    \/ StartSlotScan
    \/ StartSlotEnd

SpecStartSlot == InitStartSlot /\ [][NextStartSlot]_vars

\* GetCidForRewardsFile is called several times with the same arguments
InitCid ==
    /\ IdleNode
    /\ \E root \in 1..MaxRoot, corrupt \in BOOLEAN,
          filename \in {"rp-rewards-mainnet-1.json", "rp-rewards-mainnet-2.json"} :
          call = CidCalls(root,
                          IF corrupt THEN CorruptLeaves(PublishedLeaves(root))
                          ELSE PublishedLeaves(root),
                          filename)

NextCid == GetCid

SpecCid == InitCid /\ [][NextCid]_vars

\* pipeOutput is called once on the two output pipes of a started command
InitPipe ==
    /\ IdleNode
    /\ \E outChunks \in 0..MaxChunks, errChunks \in 0..MaxChunks :
          call = PipeCall(outChunks, errChunks)

NextPipe ==
    \/ PipeGo
    \/ \E p \in Pipes : PipeAdd(p)
    \/ \E p \in Pipes : PipeCopy(p)
    \/ \E p \in Pipes : PipeDone(p)
    \/ PipeWait

SpecPipe == InitPipe /\ [][NextPipe]_vars

\* recoverRplFromLot is called once for a lot of the chain
InitRecover ==
    /\ IdleNode
    /\ \E exists \in BOOLEAN, endBlock \in 1..MaxLotBlock, remaining \in 0..1,
          recovered \in BOOLEAN, head \in 0..MaxLotBlock :
          call = RecoverCall([Exists |-> exists, EndBlock |-> endBlock,
                              RemainingRplAmount |-> remaining, RplRecovered |-> recovered],
                             head)

NextRecover ==
    \/ RecoverServices
    \/ RecoverQueryWorker
    \/ RecoverHeaderWorker
    \/ RecoverWait

SpecRecover == InitRecover /\ [][NextRecover]_vars

\* a client is constructed and used: gas settings are assigned and the API is
\* called, in any order
InitClient ==
    /\ IdleNode
    /\ \E daemonPath \in {"", "/usr/local/bin/rocketpoold"},
          maxFee \in 0..MaxGas, maxPrioFee \in 0..MaxGas, gasLimit \in 0..MaxGas :
          call = NewClient(daemonPath, maxFee, maxPrioFee, gasLimit)

NextClient ==
    \/ AssignGasSettings
    \/ callAPI

SpecClient == InitClient /\ [][NextClient]_vars

\* the consumers of a built snapshot: CalculateEffectiveStakes, or a pass of
\* the reduceBonds task
SpecConsumers == (InitStakes \/ InitReduce) /\ [][NextStakes \/ NextReduce]_vars

-----------------------------------------------------------------------------
(* Properties of CreateNetworkState and of the two fan-outs *)

\* the execution block of the beacon block at the requested slot
PinnedBlock == beaconBlock.ExecutionBlockNumber

\* CreateNetworkState has returned a state
ReturnedState == ret.returned /\ ret.state # NilState

\* the consensus layer answered that the slot has no block
SlotHasNoBlock == beaconBlock.outcome = "ok" /\ ~beaconBlock.exists

\* the calling goroutine is inside a fan-out: between the first wg.Go and the
\* return of wg.Wait
InFanOut == pc \in {"getNetworkDetails", "CalculateEffectiveStakes"}

\* C1: CreateNetworkState never exposes a partial snapshot.  Whenever a read of
\* any phase failed (or the slot has no block) it returns a nil state and a
\* non-nil error; it returns a state only when no read failed, and then with
\* a nil error; before it returns, no state is handed out.
C1_NoPartialSnapshot ==
    /\ ~ret.returned => ret.state = NilState
    /\ ret.returned => (pc = "done" /\ (ret.state = NilState <=> ret.err # NoErr))
    /\ (ret.returned /\ (failures # <<>> \/ SlotHasNoBlock)) =>
            (ret.state = NilState /\ ret.err # NoErr)
    /\ ReturnedState =>
            /\ failures = <<>>
            /\ ret.state = state
            /\ wg.done = DOMAIN NetTasks

\* C1 witness: a read of the network-details fan-out failed, the other workers
\* ran on, and CreateNetworkState returned nil and the error
C1_Witness ==
    /\ ret.returned /\ ret.state = NilState
    /\ wg.err = "BalanceAt(smoothingPool)"
    /\ ret.err = wg.err
    /\ "SmoothingPoolAddress" \in {w[1] : w \in writes}

\* C5: when workers of the getNetworkDetails fan-out fail, the error returned is
\* the one of the worker that failed first, and every spawned worker was still
\* started and has run to its end before the return.
C5_FirstErrorAllRun ==
    (ret.returned /\ wg.n > 0 /\ failures # <<>>) =>
        /\ ret.err = Head(failures)
        /\ wg.n = Len(NetTasks)
        /\ wg.done = DOMAIN NetTasks
        /\ wg.running = {}
        /\ \A i \in DOMAIN NetTasks : Read(NetTasks[i][1].read, PinnedBlock) \in elReads

\* C5 witness: two workers failed, the later-spawned one first; its error is
\* the one returned
C5_Witness ==
    /\ ret.returned
    /\ failures = <<"BalanceAt(rETH)", "GetRPLPrice">>
    /\ ret.err = "BalanceAt(rETH)"

\* C9: every execution-layer read of the snapshot is made at the execution
\* block of the beacon block at the requested slot, every stored value comes
\* from that block, validator statuses are requested for the requested slot,
\* and the returned state carries that block and that slot.
C9_PinnedBlock ==
    /\ \A r \in elReads : r.block = PinnedBlock
    /\ \A c \in clReads : c.slot = slotNumber
    /\ ~state.nil =>
            \A f \in DOMAIN state.NetworkDetails :
                state.NetworkDetails[f] = Zero \/ state.NetworkDetails[f][1] = PinnedBlock
    /\ ReturnedState =>
            /\ ret.state.ElBlockNumber = PinnedBlock
            /\ ret.state.BeaconSlotNumber = slotNumber
            /\ PinnedBlock = ChainExecutionBlock(slotNumber)

\* C9 witness: a state was returned after the Atlas check, the contracts, the
\* two raw balance reads, the node and minipool details, the validator
\* statuses and the share calculation were all made
C9_Witness ==
    /\ ReturnedState
    /\ {"IsAtlasDeployed", "NewNetworkContracts", "BalanceAt(smoothingPool)",
        "BalanceAt(rETH)", "GetAllNativeNodeDetails", "GetAllNativeMinipoolDetails",
        "CalculateCompleteMinipoolShares"} \subseteq {r.read : r \in elReads}
    /\ clReads # {}
    /\ ret.state.NetworkDetails["RETHBalance"] = Value(PinnedBlock, 0)

\* C10: when the consensus layer has no block at the slot, CreateNetworkState
\* returns an error and has issued no execution-layer read: no Atlas check,
\* no contract lookup, no fan-out.
C10_NoBlockNoReads ==
    SlotHasNoBlock =>
        /\ ret.returned /\ ret.state = NilState /\ ret.err # NoErr
        /\ elReads = {}
        /\ clReads = {}
        /\ wg = NoGroup
        /\ state = NilState

\* C10 witness: the slot had no block and the call returned its error
C10_Witness ==
    /\ SlotHasNoBlock
    /\ ret.returned
    /\ ret.err = "slot did not have a Beacon block"

\* the tasks handed to the errgroup of the running (or last) fan-out
FanOutTasks ==
    IF pc \in {"CalculateEffectiveStakes", "stakesDone"}
    THEN DOMAIN state.NodeDetails
    ELSE IF wg = NoGroup THEN {} ELSE DOMAIN NetTasks

\* C6: join barrier.  Outside the two fan-outs no worker is running: when
\* getNetworkDetails or CalculateEffectiveStakes has returned, every worker it
\* spawned has finished, so the later phases and the tally read nothing a
\* worker still writes; the tally finds every slot of the slice stored.
C6_JoinBarrier ==
    /\ ~InFanOut =>
            /\ wg.running = {}
            /\ wg.next > wg.n
            /\ wg.done = FanOutTasks
    /\ pc = "stakesDone" =>
            /\ stakes.err = NoErr
            /\ \A i \in DOMAIN stakes.slice : stakes.slice[i] # <<>>

\* C6 witness: getNetworkDetails returned to CreateNetworkState, which goes on
\* to the node details, after all its workers (Atlas ones included) finished
C6_Witness ==
    /\ pc = "GetAllNativeNodeDetails"
    /\ wg.n = Len(ModelledWorkers) + Len(AtlasWorkers)
    /\ wg.done = 1..wg.n

\* the fields the workers of a list assign, worker by worker
AssignedBy(workers, i) == {workers[i][j].field : j \in DOMAIN workers[i]}

\* no field of NetworkDetails is assigned by two of the 36 workers of the source
SourceWorkersDisjoint ==
    LET all == AllWorkers \o AtlasWorkers
    IN  \A i \in DOMAIN all : \A j \in DOMAIN all :
            i # j => AssignedBy(all, i) \cap AssignedBy(all, j) = {}

\* C7: no location is written by two workers.  No field of NetworkDetails is
\* assigned by two workers of getNetworkDetails (of all 36 of the source), and
\* every assignment made during a fan-out is by the only worker that writes
\* that location: a field of NetworkDetails, or slot i of the slice for the
\* worker of node i.
C7_DisjointWrites ==
    /\ \A p \in writes : \A q \in writes : p[1] = q[1] => p[2] = q[2]
    /\ SourceWorkersDisjoint
    /\ pc \in {"CalculateEffectiveStakes", "stakesDone"} =>
            \A p \in writes : p[1] = p[2]

\* C7 witness: every worker of a CalculateEffectiveStakes over the largest
\* node list has stored its result
C7_Witness ==
    /\ pc = "stakesDone"
    /\ Cardinality(writes) = MaxNodes
    /\ MaxNodes >= 2

\* C8: at most threadLimit workers run at any moment, a fan-out with work left
\* can always take a step, and when it returns every task handed to the group
\* has been executed.
C8_BoundedPool ==
    /\ Cardinality(wg.running) <= threadLimit
    /\ InFanOut => (wg.running # {} \/ GoEnabled(wg) \/ WaitEnabled(wg))
    /\ (~InFanOut /\ wg # NoGroup) => wg.done = FanOutTasks
    /\ wg.done \cup wg.running = 1..(wg.next - 1)
    /\ wg.n = Cardinality(FanOutTasks)

\* C8 witness: threadLimit workers of getNetworkDetails are running and a
\* further wg.Go is waiting for a free slot
C8_Witness ==
    /\ pc = "getNetworkDetails"
    /\ Cardinality(wg.running) = threadLimit
    /\ wg.next <= wg.n

\* the addresses of the minipools that getReduceableMinipools returned
ReduceableAddresses == [k \in 1..Len(rb.minipools) |-> rb.minipools[k].mpd.MinipoolAddress]

LastDecision == rb.decision[1]
LastCalled == rb.called[Len(rb.called)]

\* C3: when reduceBond gets as far as the gas check, a passing check submits;
\* a failing check submits exactly when the time left in the window is below
\* half the window length, that is when elapsed > windowStart + windowLength/2,
\* and otherwise reduceBond returns (false, nil) with nothing submitted
C3_GasThresholdOverride ==
    (rb.decision # <<>> /\ LastDecision.outcome # "error") =>
        LET d == LastDecision
            remaining2 == 2 * ((rb.windowStart + rb.windowLength) - d.since)
            due == remaining2 < rb.windowLength
        IN  /\ d.outcome \in {"submit", "deferred"}
            /\ d.gasOk => d.outcome = "submit"
            /\ ~d.gasOk => (d.outcome = "submit" <=> due)
            /\ due <=> 2 * d.since > 2 * rb.windowStart + rb.windowLength
            /\ (~d.gasOk /\ d.since > rb.windowStart
                  /\ 2 * d.since <= 2 * rb.windowStart + rb.windowLength)
                  => d.outcome = "deferred"
            /\ d.outcome = "deferred" =>
                  /\ \A k \in 1..Len(rb.submitted) : rb.submitted[k] # LastCalled
                  /\ \A k \in 1..Len(rb.failed) : rb.failed[k] # LastCalled
                  /\ \A k \in 1..Len(rb.included) : rb.included[k] # LastCalled

\* a failing gas check deferred a minipool exactly half way through its window
C3_Witness ==
    /\ rb.decision # <<>>
    /\ LastDecision.outcome = "deferred"
    /\ ~LastDecision.gasOk
    /\ 2 * LastDecision.since = 2 * rb.windowStart + rb.windowLength

\* the four conditions of C4 on the minipool looked at last
Reduceable(e) ==
    LET elapsed == Seconds(rb.latestBlockTime - e.reduceBondTime)
    IN  /\ e.mpd.NodeDepositBalance = 16 * WeiPerEth
        /\ e.mpd.Status = "Staking"
        /\ ~e.reduceBondCancelled
        /\ rb.windowStart < elapsed
        /\ elapsed < rb.windowStart + rb.windowLength
Waiting(e) ==
    /\ e.mpd.NodeDepositBalance = 16 * WeiPerEth
    /\ e.mpd.Status = "Staking"
    /\ ~e.reduceBondCancelled
    /\ Seconds(rb.latestBlockTime - e.reduceBondTime) <= rb.windowStart
IsReturned(e) == \E k \in 1..Len(rb.minipools) : rb.minipools[k] = e

\* C4: getReduceableMinipools returns a minipool exactly when its node deposit
\* is 16 ETH, it is Staking, its reduction is not cancelled and
\* windowStart < elapsed < windowStart + windowLength; one that meets the first
\* three with elapsed <= windowStart is logged as waiting and not returned
C4_ReduceableFilter ==
    /\ \A k \in 1..Len(rb.minipools) : Reduceable(rb.minipools[k])
    /\ rb.looked # <<>> =>
          /\ IsReturned(rb.looked[1]) <=> Reduceable(rb.looked[1])
          /\ Waiting(rb.looked[1]) => (rb.logged /\ ~IsReturned(rb.looked[1]))
          /\ rb.logged => ~IsReturned(rb.looked[1])

\* one minipool was returned, and the next one, whose window had just opened
\* (elapsed = windowStart), was logged as waiting
C4_Witness ==
    /\ rb.pc = "getReduceableMinipools"
    /\ Len(rb.minipools) = 1
    /\ rb.looked # <<>>
    /\ rb.logged
    /\ Seconds(rb.latestBlockTime - rb.looked[1].reduceBondTime) = rb.windowStart
    /\ rb.windowStart > 0

\* the reads and the fields of the four Atlas-gated workers
AtlasReads == {AtlasWorkers[i][j].read : i \in DOMAIN AtlasWorkers, j \in {1}}
AtlasFields == FieldsOf(AtlasWorkers)
ReadNames == {r.read : r \in elReads}

\* C11: the Atlas flag is read before any other execution-layer read and is
\* stored in the state; an Atlas-gated read is issued only when the flag is
\* true, and then all four are issued by the time the fan-out has joined; when
\* the flag is false the four gated fields of NetworkDetails stay zero, and a
\* returned state with the flag true has all four filled in.
C11_AtlasGate ==
    /\ elReads # {} => "IsAtlasDeployed" \in ReadNames
    /\ ~state.nil => state.IsAtlasDeployed = isAtlasDeployed
    /\ (AtlasReads \cap ReadNames # {}) => isAtlasDeployed
    /\ (~state.nil /\ wg # NoGroup /\ pc # "getNetworkDetails") =>
            (AtlasReads \subseteq ReadNames <=> isAtlasDeployed)
    /\ (~state.nil /\ state.NetworkDetails # <<>> /\ ~isAtlasDeployed) =>
            \A f \in AtlasFields : state.NetworkDetails[f] = Zero
    /\ (ReturnedState /\ ret.state.IsAtlasDeployed) =>
            \A f \in AtlasFields : ret.state.NetworkDetails[f] # Zero

\* C11 witness: a state was returned with the flag false: none of the four
\* gated reads was issued and the four fields are zero, while an ungated field
\* was read
C11_Witness ==
    /\ ReturnedState
    /\ ~ret.state.IsAtlasDeployed
    /\ AtlasReads \cap ReadNames = {}
    /\ \A f \in AtlasFields : ret.state.NetworkDetails[f] = Zero
    /\ ret.state.NetworkDetails["RETHBalance"] # Zero

\* the workers of CalculateEffectiveStakes that have returned
StakeWorkersDone == {i \in DOMAIN stakes.locals : stakes.locals[i] # <<>>}
StakeLocals(i) == stakes.locals[i][1]

\* the condition of C12 on a minipool of the snapshot
Contributes(m) ==
    LET end == state.BeaconSlotNumber \div state.BeaconConfig.SlotsPerEpoch
    IN  /\ m.Exists
        /\ m.Status = "Staking"
        /\ m.Pubkey \in DOMAIN state.ValidatorDetails
        /\ state.ValidatorDetails[m.Pubkey].ActivationEpoch <= end
        /\ state.ValidatorDetails[m.Pubkey].ExitEpoch > end

\* the sum of a balance over the contributing minipools of a node, taken over
\* the first k entries of MinipoolDetails
RECURSIVE ContributedSum(_, _, _)
ContributedSum(address, k, fld) ==
    IF k = 0 THEN 0
    ELSE LET m == state.MinipoolDetails[k]
         IN  ContributedSum(address, k - 1, fld)
                + (IF m.NodeAddress = address /\ Contributes(m) THEN m[fld] ELSE 0)
Contributed(i, fld) ==
    ContributedSum(state.NodeDetails[i].NodeAddress, Len(state.MinipoolDetails), fld)

\* C12: the eligible borrowed (bonded) ETH of a node is the sum of the
\* UserDepositBalance (NodeDepositBalance) of exactly those of its minipools
\* that exist, are staking, have a validator status, were activated at or
\* before the interval end epoch and exit after it; any other minipool adds 0.
C12_EligibleMinipools ==
    \A i \in StakeWorkersDone :
        /\ StakeLocals(i).eligibleBorrowedEth = Contributed(i, "UserDepositBalance")
        /\ StakeLocals(i).eligibleBondedEth = Contributed(i, "NodeDepositBalance")

\* C12 witness: the worker of a node with a withdrawable, a staking and a
\* dissolved minipool, all three known to the Beacon chain, counted only the
\* staking one
C12_Witness ==
    \E i \in StakeWorkersDone :
        LET own == {k \in DOMAIN state.MinipoolDetails :
                       state.MinipoolDetails[k].NodeAddress = state.NodeDetails[i].NodeAddress}
        IN  /\ {state.MinipoolDetails[k].Status : k \in own}
                   = {"Withdrawable", "Staking", "Dissolved"}
            /\ \A k \in own : state.MinipoolDetails[k].Pubkey \in DOMAIN state.ValidatorDetails
            /\ StakeLocals(i).eligibleBorrowedEth = 24
            /\ StakeLocals(i).eligibleBondedEth = 8

\* the collateral bounds of node i as C13 and C14 define them, and its raw stake
BoundMin(i) ==
    (Contributed(i, "UserDepositBalance") * state.NetworkDetails.MinCollateralFraction)
        \div state.NetworkDetails.RplPrice
BoundMax(i) ==
    (Contributed(i, "NodeDepositBalance") * state.NetworkDetails.MaxCollateralFraction)
        \div state.NetworkDetails.RplPrice
RawStake(i) == state.NodeDetails[i].RplStake
\* the value the worker of node i stored
Stored(i) == stakes.slice[i][1]
HasEligibleEth(i) ==
    Contributed(i, "UserDepositBalance") # 0 \/ Contributed(i, "NodeDepositBalance") # 0

\* C13 as stated: without scaling, the effective stake of every node with
\* eligible ETH lies between minCollateral and maxCollateral
C13_WithinCollateralBounds ==
    \A i \in StakeWorkersDone :
        (~stakes.scaleByParticipation /\ HasEligibleEth(i)) =>
            (BoundMin(i) <= Stored(i) /\ Stored(i) <= BoundMax(i))

\* C13, as the code has it: without scaling the effective stake is at least 0,
\* at most maxCollateral and at most the raw stake; it is 0, below the lower
\* bound, whenever the raw stake is under minCollateral; it lies between
\* minCollateral and maxCollateral when the raw stake is at least minCollateral
\* and minCollateral <= maxCollateral
C13_ClampedRange ==
    \A i \in StakeWorkersDone :
        ~stakes.scaleByParticipation =>
            /\ 0 <= Stored(i)
            /\ Stored(i) <= BoundMax(i)
            /\ Stored(i) <= RawStake(i)
            /\ RawStake(i) < BoundMin(i) => Stored(i) = 0
            /\ (RawStake(i) >= BoundMin(i) /\ BoundMin(i) <= BoundMax(i)) =>
                   (BoundMin(i) <= Stored(i) /\ Stored(i) <= BoundMax(i))

\* C13 witness: a node with eligible ETH whose raw stake is positive and under
\* minCollateral got the effective stake 0
C13_Witness ==
    \E i \in StakeWorkersDone :
        /\ ~stakes.scaleByParticipation
        /\ HasEligibleEth(i)
        /\ 0 < RawStake(i)
        /\ RawStake(i) < BoundMin(i)
        /\ BoundMin(i) <= BoundMax(i)
        /\ Stored(i) = 0

\* C14: the worker's minCollateral and maxCollateral are the floors of
\* eligibleBorrowedEth * MinCollateralFraction / RplPrice and of
\* eligibleBondedEth * MaxCollateralFraction / RplPrice, and without scaling
\* the effective stake is 0 when the raw stake is under minCollateral,
\* maxCollateral when it is at least minCollateral and over maxCollateral, and
\* the raw stake otherwise; a stake equal to either bound is kept.
C14_ClampCases ==
    \A i \in StakeWorkersDone :
        /\ StakeLocals(i).minCollateral = BoundMin(i)
        /\ StakeLocals(i).maxCollateral = BoundMax(i)
        /\ BoundMin(i) * state.NetworkDetails.RplPrice
               <= Contributed(i, "UserDepositBalance") * state.NetworkDetails.MinCollateralFraction
        /\ (BoundMin(i) + 1) * state.NetworkDetails.RplPrice
               > Contributed(i, "UserDepositBalance") * state.NetworkDetails.MinCollateralFraction
        /\ BoundMax(i) * state.NetworkDetails.RplPrice
               <= Contributed(i, "NodeDepositBalance") * state.NetworkDetails.MaxCollateralFraction
        /\ (BoundMax(i) + 1) * state.NetworkDetails.RplPrice
               > Contributed(i, "NodeDepositBalance") * state.NetworkDetails.MaxCollateralFraction
        /\ ~stakes.scaleByParticipation =>
            /\ RawStake(i) < BoundMin(i) => Stored(i) = 0
            /\ (RawStake(i) >= BoundMin(i) /\ RawStake(i) > BoundMax(i)) => Stored(i) = BoundMax(i)
            /\ (RawStake(i) >= BoundMin(i) /\ RawStake(i) <= BoundMax(i)) => Stored(i) = RawStake(i)
            /\ (RawStake(i) = BoundMin(i) /\ RawStake(i) <= BoundMax(i)) => Stored(i) = RawStake(i)
            /\ (RawStake(i) = BoundMax(i) /\ RawStake(i) >= BoundMin(i)) => Stored(i) = RawStake(i)

\* C14 witness: a positive raw stake equal to minCollateral was kept, and the
\* division that gives the minCollateral of some node is not exact
C14_Witness ==
    \E i \in StakeWorkersDone :
        /\ ~stakes.scaleByParticipation
        /\ RawStake(i) > 0
        /\ RawStake(i) = BoundMin(i)
        /\ Stored(i) = RawStake(i)
        /\ \E j \in StakeWorkersDone :
              BoundMin(j) * state.NetworkDetails.RplPrice
                 < Contributed(j, "UserDepositBalance") * state.NetworkDetails.MinCollateralFraction

\* the clamped stake of node i by the three cases of C14
Clamped(i) ==
    IF RawStake(i) < BoundMin(i) THEN 0
    ELSE IF RawStake(i) > BoundMax(i) THEN BoundMax(i)
    ELSE RawStake(i)
\* seconds from the registration of node i to the time of the snapshot's slot
Elapsed(i) ==
    (state.BeaconConfig.GenesisTime
        + state.BeaconSlotNumber * state.BeaconConfig.SecondsPerSlot)
    - state.NodeDetails[i].RegistrationTime
Interval == state.NetworkDetails.IntervalDuration

\* C15: with scaleByParticipation the result is the clamped stake when the
\* elapsed time is at least IntervalDuration and the floor of
\* clamped * elapsed / interval when it is less; it never exceeds the clamped
\* stake; without the flag the result is the clamped stake.
C15_ParticipationScaling ==
    \A i \in StakeWorkersDone :
        /\ StakeLocals(i).clamped = Clamped(i)
        /\ ~stakes.scaleByParticipation => Stored(i) = Clamped(i)
        /\ stakes.scaleByParticipation =>
            /\ Stored(i) <= Clamped(i)
            /\ Elapsed(i) >= Interval => Stored(i) = Clamped(i)
            /\ Elapsed(i) < Interval =>
                  /\ Stored(i) * Interval <= Clamped(i) * Elapsed(i)
                  /\ Clamped(i) * Elapsed(i) < (Stored(i) + 1) * Interval

\* C15 witness: with the flag set, a node registered within the interval got a
\* positive part of its clamped stake by an inexact division, and a node
\* registered more than an interval ago got its whole clamped stake
C15_Witness ==
    /\ stakes.scaleByParticipation
    /\ \E i \in StakeWorkersDone :
          /\ 0 < Elapsed(i) /\ Elapsed(i) < Interval
          /\ 0 < Stored(i) /\ Stored(i) < Clamped(i)
          /\ Stored(i) * Interval < Clamped(i) * Elapsed(i)
    /\ \E j \in StakeWorkersDone :
          /\ Elapsed(j) > Interval
          /\ Stored(j) = Clamped(j)
          /\ Clamped(j) > 0

\* the node addresses of the snapshot
NodeAddresses == {state.NodeDetails[i].NodeAddress : i \in DOMAIN state.NodeDetails}
\* nodes and minipools of the snapshot that are out of the ordinary
UnknownValidators ==
    {k \in DOMAIN state.MinipoolDetails :
        state.MinipoolDetails[k].Pubkey \notin DOMAIN state.ValidatorDetails}
LateOrExited ==
    {k \in DOMAIN state.MinipoolDetails \ UnknownValidators :
        LET v == state.ValidatorDetails[state.MinipoolDetails[k].Pubkey]
            end == state.BeaconSlotNumber \div state.BeaconConfig.SlotsPerEpoch
        IN  v.ActivationEpoch > end \/ v.ExitEpoch <= end}
NodesWithoutMinipools ==
    {i \in DOMAIN state.NodeDetails :
        \A k \in DOMAIN state.MinipoolDetails :
            state.MinipoolDetails[k].NodeAddress # state.NodeDetails[i].NodeAddress}

\* C16: CalculateEffectiveStakes returns a nil error, a map with exactly one
\* entry per node of NodeDetails and a total, whatever the nodes and minipools
\* of the snapshot look like; no worker returns an error.
C16_NoFailureOnAnomaly ==
    /\ pc \in {"CalculateEffectiveStakes", "stakesDone"} => wg.err = NoErr
    /\ pc = "stakesDone" =>
          /\ stakes.returned
          /\ stakes.err = NoErr
          /\ DOMAIN stakes.effectiveStakes = NodeAddresses
          /\ Cardinality(DOMAIN stakes.effectiveStakes) = Len(state.NodeDetails)
          /\ stakes.total \in Int

\* C16 witness: the call returned for a snapshot with a node without
\* minipools, a node with zero stake, a minipool without validator status and
\* minipools activated late or already exited
C16_Witness ==
    /\ pc = "stakesDone"
    /\ stakes.err = NoErr
    /\ UnknownValidators # {}
    /\ LateOrExited # {}
    /\ NodesWithoutMinipools # {}
    /\ \E i \in DOMAIN state.NodeDetails : state.NodeDetails[i].RplStake = 0
    /\ Cardinality(DOMAIN stakes.effectiveStakes) >= 5

\* the sum of the values of a function with a finite domain
RECURSIVE SumOver(_, _)
SumOver(f, keys) ==
    IF keys = {} THEN 0
    ELSE LET a == CHOOSE x \in keys : TRUE
         IN  f[a] + SumOver(f, keys \ {a})

\* the effective stake of node i as C14 and C15 define it
Expected(i) ==
    IF stakes.scaleByParticipation /\ Elapsed(i) < Interval
    THEN (Clamped(i) * Elapsed(i)) \div Interval
    ELSE Clamped(i)

\* C17: the returned total is the sum of the values of the returned map, the
\* keys of the map are the node addresses of the snapshot, and the map and the
\* total are determined by the snapshot and the flag alone, whatever the order
\* the workers ran in.
C17_TotalIsSumOfMap ==
    pc = "stakesDone" =>
        /\ DOMAIN stakes.effectiveStakes = NodeAddresses
        /\ stakes.total = SumOver(stakes.effectiveStakes, DOMAIN stakes.effectiveStakes)
        /\ \A i \in DOMAIN state.NodeDetails :
              stakes.effectiveStakes[state.NodeDetails[i].NodeAddress] = Expected(i)
        /\ stakes.total = SumOver([i \in DOMAIN state.NodeDetails |-> Expected(i)],
                                  DOMAIN state.NodeDetails)

\* C17 witness: the call returned a map of at least three nodes, two of them
\* with a positive stake, and their total
C17_Witness ==
    /\ pc = "stakesDone"
    /\ Cardinality(DOMAIN stakes.effectiveStakes) >= 3
    /\ Cardinality({a \in DOMAIN stakes.effectiveStakes : stakes.effectiveStakes[a] > 0}) >= 2
    /\ stakes.total > 0

\* what the reduceBonds task holds of the snapshot: the window settings, the
\* number of minipools of the node, and the records of the minipools it kept
TaskView(task) ==
    [windowStart |-> task.windowStart, windowLength |-> task.windowLength,
     count |-> task.count]
KeptRecords(task) == [k \in DOMAIN task.minipools |-> task.minipools[k].mpd]

\* a step leaves the snapshot as it was: the state of CalculateEffectiveStakes
\* and the task's view; the records kept by the task stay as they were read
\* (the list only grows, or is dropped on an error return)
SnapshotUnchanged ==
    /\ state' = state
    /\ TaskView(rb') = TaskView(rb)
    /\ \/ rb'.minipools = <<>>
       \/ /\ Len(rb'.minipools) >= Len(rb.minipools)
          /\ \A k \in DOMAIN rb.minipools : KeptRecords(rb')[k] = KeptRecords(rb)[k]

\* every value a worker of CalculateEffectiveStakes stored is a big.Int of its
\* own, not one of the snapshot's, and the snapshot is the one that was passed
ResultsNotAliased ==
    /\ \A i \in StakeWorkersDone : StakeLocals(i).nodeStake = <<"new", i>>
    /\ pc \in {"CalculateEffectiveStakes", "stakesDone"} => state = ret.state

\* C18: no step of CalculateEffectiveStakes (with or without scaling), of
\* getReduceableMinipools or of reduceBond changes the snapshot: NodeDetails
\* (each RplStake), MinipoolDetails, NetworkDetails and ValidatorDetails stay
\* as built, and the values CalculateEffectiveStakes returns are new big.Ints,
\* not the snapshot's.
C18_SnapshotNotMutated == [][SnapshotUnchanged]_vars /\ []ResultsNotAliased

\* C18 witness: CalculateEffectiveStakes returned, with scaling, a value that
\* differs from the node's RplStake, and the snapshot still is the one passed
C18_Witness ==
    /\ pc = "stakesDone"
    /\ stakes.scaleByParticipation
    /\ state = ret.state
    /\ \E i \in DOMAIN state.NodeDetails :
          /\ Stored(i) # state.NodeDetails[i].RplStake
          /\ Stored(i) > 0

\* the result of the running GetClaimStatus
ClaimResult == call.claimStatus
Elements(seq) == {seq[k] : k \in DOMAIN seq}
Ascending(seq) == \A k \in 1..(Len(seq) - 1) : seq[k] < seq[k + 1]
\* bit (i mod 256) of the bitmap of bucket (i div 256) on the chain
BitOnChain(i) == (i % 256) \in call.chain[i \div 256]

\* C19: the result of GetClaimStatus splits 0..currentIndex-1: every such
\* index is in exactly one of Claimed and Unclaimed, no other index is in
\* either, an index is in Claimed exactly when its bit is set in its bucket's
\* bitmap, and both lists are ascending; bucket 0 = 0b101 with currentIndex 3
\* gives Claimed = [0, 2] and Unclaimed = [1]; currentIndex 0 gives two empty
\* lists.
C19_ClaimPartition ==
    (call.fn = "GetClaimStatus" /\ call.returned /\ call.err = NoErr) =>
        LET claimed == Elements(ClaimResult.Claimed)
            unclaimed == Elements(ClaimResult.Unclaimed)
        IN  /\ claimed \cup unclaimed = 0..(call.currentIndex - 1)
            /\ claimed \cap unclaimed = {}
            /\ claimed = {i \in 0..(call.currentIndex - 1) : BitOnChain(i)}
            /\ Ascending(ClaimResult.Claimed)
            /\ Ascending(ClaimResult.Unclaimed)
            /\ (call.currentIndex = 3 /\ call.chain[0] = {0, 2}) =>
                   (ClaimResult.Claimed = <<0, 2>> /\ ClaimResult.Unclaimed = <<1>>)
            /\ call.currentIndex = 0 =>
                   (ClaimResult.Claimed = <<>> /\ ClaimResult.Unclaimed = <<>>)

\* C19 witness: a node that claimed the last interval of bucket 0 and interval
\* 258 was asked about at current index 259
C19_Witness ==
    /\ call.fn = "GetClaimStatus"
    /\ call.returned
    /\ call.err = NoErr
    /\ call.currentIndex = 259
    /\ ClaimResult.Claimed = <<255, 258>>
    /\ Len(ClaimResult.Unclaimed) = 257


\* what the call of GetIntervalInfo returned
IntervalResult == call.info
EventObtained == call.merkleRootCanon = call.event.MerkleRoot
FileWasRead == call.proofWrapper # <<>>
FileRootMatches == HexToHash(call.file[1].MerkleRoot) = call.event.MerkleRoot
NoRewardsOrProof ==
    /\ IntervalResult.CollateralRplAmount = 0
    /\ IntervalResult.ODaoRplAmount = 0
    /\ IntervalResult.SmoothingPoolEthAmount = 0
    /\ IntervalResult.MerkleProof = <<>>

\* C20: GetIntervalInfo has three outcomes once it has the interval's event.
\* Without a local tree file the result has TreeFileExists, MerkleRootValid and
\* NodeExists all false and no error.  With a file whose root differs from the
\* event's root it has TreeFileExists true, MerkleRootValid and NodeExists false,
\* no reward amounts or proof, and no error.  With a file whose root matches it
\* has TreeFileExists and MerkleRootValid true and NodeExists true exactly when
\* the file has an entry for the node address.  Every result, also one returned
\* with an error, has NodeExists => MerkleRootValid => TreeFileExists.
C20_IntervalInfoOutcomes ==
    (call.fn = "GetIntervalInfo" /\ call.returned) =>
        /\ (EventObtained /\ call.file = <<>>) =>
              /\ ~IntervalResult.TreeFileExists
              /\ ~IntervalResult.MerkleRootValid
              /\ ~IntervalResult.NodeExists
              /\ call.err = NoErr
        /\ (FileWasRead /\ ~FileRootMatches) =>
              /\ IntervalResult.TreeFileExists
              /\ ~IntervalResult.MerkleRootValid
              /\ ~IntervalResult.NodeExists
              /\ NoRewardsOrProof
              /\ call.err = NoErr
        /\ (FileWasRead /\ FileRootMatches) =>
              /\ IntervalResult.TreeFileExists
              /\ IntervalResult.MerkleRootValid
              /\ IntervalResult.NodeExists <=>
                     (call.nodeAddress \in DOMAIN call.file[1].NodeRewards)
        /\ IntervalResult.NodeExists => IntervalResult.MerkleRootValid
        /\ IntervalResult.MerkleRootValid => IntervalResult.TreeFileExists

\* a file whose root differs from the event's, with an entry for the node, was
\* read and the call returned
C20_Witness ==
    /\ call.fn = "GetIntervalInfo"
    /\ call.returned
    /\ FileWasRead
    /\ ~FileRootMatches
    /\ call.file[1].MerkleRoot[1] # "not hex"
    /\ call.nodeAddress \in DOMAIN call.file[1].NodeRewards
    /\ call.err = NoErr


\* C21: a rewards file is reported valid (MerkleRootValid) only if the Merkle
\* root recomputed from its per-node leaves equals the root of the interval's
\* event, so a file with a corrupted leaf and an untouched merkleRoot field is
\* reported invalid.  GetIntervalInfo compares the declared merkleRoot field
\* only, so this does not hold of it.
C21_ValidOnlyIfRecomputedRootMatches ==
    (call.fn = "GetIntervalInfo" /\ call.returned /\ IntervalResult.MerkleRootValid) =>
        MerkleRootOfLeaves(call.file[1].NodeRewards) = call.event.MerkleRoot


\* C30: compressing a serialized rewards file with the encoder of
\* GetCidForRewardsFile and passing the result to decompressFile gives the
\* original bytes and no error, for every byte sequence
C30_RoundTrip ==
    (call.fn = "codec" /\ call.returned) =>
        /\ call.err = NoErr
        /\ call.decompressedBytes = call.data

\* a file with a run of equal bytes and other bytes, in several blocks, was
\* compressed and decompressed
C30_Witness ==
    /\ call.fn = "codec"
    /\ call.returned
    /\ Len(call.data) > MaxBlockLen
    /\ call.data[1] = call.data[2]
    /\ \E k \in 1..Len(call.data) : call.data[k] # call.data[1]
    /\ call.compressedData # call.data


\* the Merkle root recomputed from a serialized rewards file
MerkleRootOfBytes(bytes) ==
    IF \E r \in 1..MaxRoot : Marshal(r, PublishedLeaves(r)) = <<r>> \o Tail(bytes)
    THEN CHOOSE r \in 1..MaxRoot :
             /\ Marshal(r, PublishedLeaves(r)) = <<r>> \o Tail(bytes)
             /\ \A q \in 1..MaxRoot :
                   Marshal(q, PublishedLeaves(q)) = <<q>> \o Tail(bytes) => r <= q
    ELSE MaxRoot + 1
Downloading == call.fn = "DownloadRewardsFile"
FailedOutcomes ==
    {"transport error", "status not 200", "body read error", "decompression error"}

\* C22: DownloadRewardsFile writes the artifact to local storage only after it
\* has verified that the Merkle root recomputed from it equals the event's
\* root; an artifact whose root does not match is never written.
\* DownloadRewardsFile verifies nothing, so this does not hold of it.
C22_WrittenOnlyIfRootVerified ==
    (Downloading /\ call.written # <<>>) =>
        MerkleRootOfBytes(call.written[1]) = call.event.MerkleRoot

\* C23: the mirrors are contacted in the order primary, secondary, fallback;
\* a mirror is contacted only if the one before it failed (transport error,
\* non-200 status, body read error or decompression error); no mirror is
\* contacted after one succeeded.
C23_MirrorOrder ==
    Downloading =>
        /\ Len(call.attempts) <= 3
        /\ \A k \in 1..Len(call.attempts) :
              /\ call.attempts[k].mirror = <<"primary", "secondary", "github">>[k]
              /\ k < Len(call.attempts) => call.attempts[k].outcome \in FailedOutcomes
        /\ (call.written # <<>> \/ call.err = "error saving interval file") =>
              /\ call.returned
              /\ call.attempts[Len(call.attempts)].outcome = "downloaded"

\* the primary mirror's body did not decompress and the secondary mirror's file
\* was written
C23_Witness ==
    /\ Downloading
    /\ call.returned
    /\ Len(call.attempts) = 2
    /\ call.attempts[1].outcome = "decompression error"
    /\ call.attempts[2].outcome = "downloaded"
    /\ call.written # <<>>
    /\ call.err = NoErr

\* C24: when all three mirrors fail, DownloadRewardsFile reports a non-fatal
\* "unavailable" result rather than an error.  It returns an error.
C24_UnavailableIsNotAnError ==
    (/\ Downloading
     /\ call.returned
     /\ Len(call.attempts) = 3
     /\ \A k \in 1..3 : call.attempts[k].outcome \in FailedOutcomes) =>
        call.err = NoErr


Locating == call.fn = "GetELBlockHeaderForTime"
Located == Locating /\ call.returned /\ call.err = NoErr
StrictlyIncreasing(chain) == \A k \in 1..(Len(chain) - 1) : chain[k] < chain[k + 1]

\* C25: GetELBlockHeaderForTime never returns the head block or a later one,
\* for every deploy block, head block and target time, also a target at or after
\* the head's time and a deploy block equal to or one below the head
C25_BeforeHead ==
    Located => call.result.Number < HeadOf(call.chain)

\* C26: on a chain with strictly increasing block times and a target between the
\* deploy block's time and the time of block head - 1, the returned block is not
\* after the target and the block after it is after the target
C26_LatestBlockBeforeTarget ==
    (/\ Located
     /\ StrictlyIncreasing(call.chain)
     /\ TimeOfBlock(call.chain, call.DeployBlock) <= call.targetTimeUnix
     /\ call.targetTimeUnix <= TimeOfBlock(call.chain, HeadOf(call.chain) - 1)) =>
        /\ call.result.Time <= call.targetTimeUnix
        /\ TimeOfBlock(call.chain, call.result.Number + 1) > call.targetTimeUnix


\* after k halvings the pivot size is the first pivot size divided by 2^k,
\* rounded up: it is 1 from the first k with 2^k >= the first pivot size on
PivotHalves ==
    (Locating /\ call.pc \in {"loop", "walk"}) =>
        /\ call.pivotSize * (2 ^ call.halvings) >= call.firstPivot
        /\ (call.pivotSize - 1) * (2 ^ call.halvings) < call.firstPivot
LocatorReturned == Locating /\ call.returned

\* C27: GetELBlockHeaderForTime terminates for every chain whose block times do
\* not decrease and every target time: the pivot size reaches 1 after a
\* logarithmic number of halvings and the call returns after finitely many
\* further probes
C27_Terminates == []PivotHalves /\ <>LocatorReturned

\* a call returned a block after three halvings and a walk back
C27_Witness ==
    /\ Located
    /\ call.halvings >= 3
    /\ call.pivotSize = 1
    /\ call.probes > call.halvings + 1


Scanning == call.fn = "GetStartSlotForInterval"
\* the first slot of the epoch after the previous interval's, and the last slot
\* of the head's epoch
FirstSlot == (call.ConsensusBlock \div call.SlotsPerEpoch + 1) * call.SlotsPerEpoch
LastSlot == (call.headSlot \div call.SlotsPerEpoch + 1) * call.SlotsPerEpoch - 1
SlotsWithBlock == {s \in FirstSlot..LastSlot : s \in call.blocks}
ReadErrors ==
    {"error getting Beacon chain head", "error verifying block from previous interval",
     "couldn't retrieve CL block from previous interval",
     "error getting EL data for BC slot"}

\* C28: GetStartSlotForInterval returns the smallest slot at or after the first
\* slot of the epoch after the previous interval's that has a block, when that
\* slot's epoch is not after the head's; it returns an error when no slot up to
\* the end of the head's epoch has a block; the scan looks at each slot once, in
\* ascending order, and never past the head's epoch
C28_FirstExistingSlot ==
    Scanning =>
        /\ \A k \in 1..Len(call.scanned) : call.scanned[k] = FirstSlot + k - 1
        /\ call.pc \in {"scan", "end"} => call.consensusStartBlock <= LastSlot + 1
        /\ (call.returned /\ call.err \notin ReadErrors) =>
              IF SlotsWithBlock # {}
              THEN /\ call.err = NoErr
                   /\ call.result \in SlotsWithBlock
                   /\ \A s \in SlotsWithBlock : call.result <= s
              ELSE /\ call.err # NoErr
                   /\ call.result = 0

\* the first slot of the epoch was missed and a later slot of a later epoch,
\* not after the head's, was returned
C28_Witness ==
    /\ Scanning
    /\ call.returned
    /\ call.err = NoErr
    /\ call.result >= FirstSlot + call.SlotsPerEpoch
    /\ call.result \div call.SlotsPerEpoch = call.headSlot \div call.SlotsPerEpoch


\* the transactions submitted whose reduceBond call has not returned
InFlight == Len(rb.submitted) - Len(rb.included)
\* a step that submits a transaction: every earlier call of reduceBond in the
\* pass has returned without an error, and every transaction submitted before
\* was waited for and included
SubmitsAfterReturn ==
    Len(rb'.submitted) > Len(rb.submitted) =>
        /\ Len(rb'.submitted) = Len(rb.submitted) + 1
        /\ Len(rb.submitted) = Len(rb.included)
        /\ rb.failed = <<>>
        /\ Len(rb.called) = rb.cur
        /\ rb'.submitted[Len(rb'.submitted)] = rb.called[Len(rb.called)]
OneInFlight ==
    /\ InFlight \in {0, 1}
    /\ InFlight = 1 =>
          \/ rb.pc = "WaitForTransaction"
          \/ rb.returned /\ rb.err = "WaitForTransaction"
    /\ \A k \in 1..Len(rb.included) : rb.included[k] = rb.submitted[k]

\* C29: within a pass the reduceable minipools are processed one after another:
\* the transaction of the next minipool is never submitted before the previous
\* minipool's reduceBond call, the wait for its transaction included, has
\* returned, so at most one transaction of the pass is in flight at any time
C29_OneAtATime == [][SubmitsAfterReturn]_vars /\ []OneInFlight

\* the pass submitted a second transaction after the first was included
C29_Witness ==
    /\ Len(rb.submitted) = 2
    /\ Len(rb.included) = 1
    /\ rb.pc = "WaitForTransaction"


CidResults == call.results

C32_FaithfulNodeIndex ==
    (ReturnedState /\ Len(ret.state.NodeDetails) >= 2) =>
        LET nodes == ret.state.NodeDetails
            index == ret.state.NodeDetailsByAddress
        IN  /\ DOMAIN index = {nodes[i].NodeAddress : i \in DOMAIN nodes}
            /\ \A i \in DOMAIN nodes :
                  /\ index[nodes[i].NodeAddress].NodeAddress = nodes[i].NodeAddress
                  /\ index[nodes[i].NodeAddress].RplStake = nodes[i].RplStake
                  /\ index[nodes[i].NodeAddress].RegistrationTime = nodes[i].RegistrationTime
            /\ \A a, b \in DOMAIN index : a # b => index[a] # index[b]

\* the fields of NetworkDetails computed from state.NetworkDetails.RewardIndex
\* passed as an argument
IndexedFields ==
    UNION {{NetTasks[i][j].field : j \in {k \in DOMAIN NetTasks[i] : NetTasks[i][k].idx}} :
              i \in DOMAIN NetTasks}

\* C33: in every schedule of the getNetworkDetails workers the values computed
\* from the reward index are computed from the reward index read at the pinned
\* block: a returned snapshot never holds a value computed from the field
\* before the worker that stores the reward index has stored it.
C33_IndexReadAfterWrite ==
    ReturnedState =>
        \A f \in IndexedFields :
            ret.state.NetworkDetails[f] = Value(PinnedBlock, RewardIndexAt(PinnedBlock))

\* C34: every effective stake that CalculateEffectiveStakes returns, and the
\* total, is at least 0, with and without participation scaling, also for a
\* node registered after the time of the snapshot's slot.
C34_StakesNonNegative ==
    (pc = "stakesDone" /\ stakes.returned /\ stakes.err = NoErr) =>
        /\ \A a \in DOMAIN stakes.effectiveStakes : stakes.effectiveStakes[a] >= 0
        /\ stakes.total >= 0

\* the phases of CreateNetworkState in source order, by the position of the
\* calling goroutine
PhaseOrder ==
    <<"GetBeaconBlock", "IsAtlasDeployed", "NewNetworkContracts", "getNetworkDetails",
      "GetAllNativeNodeDetails", "GetAllNativeMinipoolDetails", "GetValidatorStatuses",
      "CalculateCompleteMinipoolShares">>
PhaseOf(p) == CHOOSE k \in DOMAIN PhaseOrder : PhaseOrder[k] = p

\* a step of CreateNetworkState that leaves a phase enters the next one with
\* nothing failed so far, or returns
PhaseStep ==
    (pc \in {PhaseOrder[k] : k \in DOMAIN PhaseOrder} /\ pc' # pc) =>
        \/ pc' = "done"
        \/ /\ PhaseOf(pc) < Len(PhaseOrder)
           /\ pc' = PhaseOrder[PhaseOf(pc) + 1]
           /\ failures' = <<>>
           /\ beaconBlock'.outcome = "ok" /\ beaconBlock'.exists

\* the requests and the arguments of the last two phases
PhaseArguments ==
    /\ ("GetAllNativeNodeDetails" \in ReadNames) =>
            (wg # NoGroup /\ wg.done = DOMAIN NetTasks /\ wg.err = NoErr)
    /\ \A c \in clReads :
            /\ "GetAllNativeMinipoolDetails" \in ReadNames
            /\ {c.pubkeys[k] : k \in DOMAIN c.pubkeys}
                   = {state.MinipoolDetails[i].Pubkey : i \in DOMAIN state.MinipoolDetails} \ {0}
            /\ Len(c.pubkeys) = Cardinality({i \in DOMAIN state.MinipoolDetails :
                                                state.MinipoolDetails[i].Pubkey # 0})
    /\ \A r \in elReads :
            r.read = "CalculateCompleteMinipoolShares" =>
                /\ clReads # {}
                /\ DOMAIN r.beaconBalances = DOMAIN state.MinipoolDetails
                /\ \A i \in DOMAIN state.MinipoolDetails :
                      LET key == state.MinipoolDetails[i].Pubkey
                      IN  r.beaconBalances[i] =
                              IF key \in DOMAIN state.ValidatorDetails
                              THEN state.ValidatorDetails[key].Balance * WeiPerGwei
                              ELSE 0

\* C35: the phases of CreateNetworkState run in source order, each entered
\* only when the one before it succeeded: beacon block, Atlas flag, network
\* details, node details, minipool details, validator statuses, share
\* calculation; the validator statuses are requested for exactly the non-empty
\* public keys of the minipools, and the share calculation is handed, per
\* minipool, the validator's balance when it has a status and 0 when not.
C35_PhaseOrder == [][PhaseStep]_vars /\ []PhaseArguments

\* C35 witness: a state was returned for minipools of which one has no public
\* key, one has a key without validator status and one has a status
C35_Witness ==
    /\ ReturnedState
    /\ \E r \in elReads :
          /\ r.read = "CalculateCompleteMinipoolShares"
          /\ \E i, j, k \in DOMAIN state.MinipoolDetails :
                /\ state.MinipoolDetails[i].Pubkey = 0
                /\ state.MinipoolDetails[j].Pubkey # 0
                /\ state.MinipoolDetails[j].Pubkey \notin DOMAIN state.ValidatorDetails
                /\ r.beaconBalances[j] = 0
                /\ r.beaconBalances[k] > 0

\* every mirror tried so far failed
AllAttemptsFailed == \A k \in 1..Len(call.attempts) : call.attempts[k].outcome \in FailedOutcomes

\* C36: DownloadRewardsFile calls the write to the rewards tree path at most
\* once; while every mirror tried has failed, and when all of them have, it has
\* written nothing and the file that was there is unchanged; a failed write
\* ends the call at once with its error, the remaining mirrors untried.
C36_AtMostOneWrite ==
    Downloading =>
        /\ call.writeCalls <= 1
        /\ AllAttemptsFailed => (call.writeCalls = 0 /\ call.file = call.before)
        /\ (call.returned /\ call.pc = "done" /\ AllAttemptsFailed) => call.err # NoErr
        /\ (call.writeCalls = 1 /\ call.written = <<>>) =>
              /\ call.returned
              /\ call.err = "error saving interval file"
              /\ call.attempts[Len(call.attempts)].outcome = "downloaded"
              /\ call.next = Len(call.attempts) + 1
        /\ (call.writeCalls = 1 /\ call.written # <<>>) =>
              (call.returned /\ call.err = NoErr /\ call.file = call.written)

\* C36 witness: over an existing file, the three mirrors failed (the second by
\* a body that does not decompress) and the file is as it was; or the write of
\* the primary mirror's file failed and the call returned with two mirrors
\* untried
C36_Witness ==
    /\ Downloading
    /\ call.returned
    /\ call.before # <<>>
    /\ \/ /\ Len(call.attempts) = 3
          /\ AllAttemptsFailed
          /\ call.attempts[2].outcome = "decompression error"
          /\ call.file = call.before
       \/ /\ Len(call.attempts) = 1
          /\ call.writeCalls = 1
          /\ call.written = <<>>
          /\ call.file # call.before

\* C37: every block number GetELBlockHeaderForTime asks the execution client
\* for is at least 0 (also when the target time is before the time of block 0
\* or of the deploy block, in the bisection and in the walk back) and, from the
\* second request on, at most head - 1.
C37_RequestsInRange ==
    (Locating /\ call.probes >= 1) =>
        /\ call.candidateBlockNumber >= 0
        /\ call.probes >= 2 => call.candidateBlockNumber <= HeadOf(call.chain) - 1

Piping == call.fn = "pipeOutput"

\* C38: pipeOutput does not return before both copiers have finished: in every
\* interleaving of the two goroutines with the caller, when wg.Wait has
\* returned, pipeToStdOut and pipeToStdErr have both copied their pipe to its
\* end and returned.
C38_WaitsForBothCopiers ==
    (Piping /\ call.returned) =>
        \A p \in Pipes : call.copiers[p].pc = "finished"

Recovering == call.fn = "recoverRplFromLot"

\* C39: when the contract-state query and the fetch of the latest header both
\* succeed, recoverRplFromLot returns a response and a nil error, and CanRecover
\* is true exactly when the lot exists, the current block is at or past the
\* lot's end block, RPL remains and it was not recovered yet; the transaction
\* info is built only when CanRecover is true.
C39_RecoverResponse ==
    (/\ Recovering
     /\ call.returned
     /\ call.pending = {}
     /\ call.queryErr = NoErr
     /\ call.headerErr = NoErr) =>
        /\ call.err = NoErr
        /\ call.responseReturned
        /\ call.response.CanRecover <=>
              (/\ call.chainLot.Exists
               /\ call.head >= call.chainLot.EndBlock
               /\ call.chainLot.RemainingRplAmount # 0
               /\ ~call.chainLot.RplRecovered)
        /\ call.txInfoBuilt => call.response.CanRecover

\* C40: when a callAPI invocation has returned, with success or with an error
\* (also the error of the API container name that cannot be resolved),
\* GetGasSettings returns the maxFee, maxPrioFee and gasLimit given when the
\* client was constructed: assigned gas settings last for one call only.
C40_GasSettingsReset ==
    (call.fn = "Client" /\ call.afterCall) =>
        GetGasSettings(call)
            = <<call.originalMaxFee, call.originalMaxPrioFee, call.originalGasLimit>>

====
